---- MODULE Spec2Model ----
(***************************************************************************)
(* A model of the SPECTER announcement substrate and stealth engine:       *)
(*   - MemoryRegistry (specter-registry/src/memory.rs), with its           *)
(*     operations split at every access to a shared structure, run by      *)
(*     concurrent callers;                                                 *)
(*   - FileRegistry (specter-registry/src/file.rs), with save split at     *)
(*     every file-system call, I/O errors and process crashes;             *)
(*   - the sender / recipient pipeline (specter-stealth, specter-crypto).  *)
(***************************************************************************)
EXTENDS Integers, Sequences, FiniteSets, TLC

VARIABLES
    mem,        \* the MemoryRegistry: announcements, view_tag_index, tx_hash_index, next_id, stats
    th,         \* per caller: the operation in progress and its local variables
    now,        \* the system clock, in seconds
    publog,     \* history: the publish calls that returned Ok, in order of return
    errlog,     \* history: the errors publish returned
    nOps,       \* history: number of operations started
    path,       \* FileRegistry.path
    fs,         \* the file system: path -> file
    fr,         \* the FileRegistry object: alive, dirty, writes_since_save, auto_save_threshold
    fcall,      \* the FileRegistry call in progress and its local variables
    flast,      \* history: the FileRegistry call that returned last
    nCrash,     \* history: number of process crashes
    fh,         \* history of the FileRegistry: publishes since the last save, writes of the call
    pay,        \* the result of the last create_stealth_payment
    scan,       \* the scan_announcement / try_discover call in progress or returned last
    kd,         \* a derive_eth_key_seed call: the candidate seed and the re-hashes made
    sc,         \* the Scanner: keys, position, stats, and the scan call in progress
    sq,         \* a MemoryRegistry with one caller: the registry and the call that returned last
    cd,         \* a from_bytes call: the bytes given and the result
    ca,         \* a MetaAddressCache: its configuration, entries and clock
    cf          \* a FileRegistry with concurrent callers: flags, file, the calls in progress

regVars == <<mem, th, now, publog, errlog, nOps>>
fileVars == <<path, fs, fr, fcall, flast, nCrash, fh>>
extraVars == <<sq, cd, ca, cf>>
stealthVars == <<pay, scan, kd, sc, sq, cd, ca, cf>>
vars == <<mem, th, now, publog, errlog, nOps, path, fs, fr, fcall, flast, nCrash, fh,
          pay, scan, kd, sc, sq, cd, ca, cf>>

-----------------------------------------------------------------------------
(* Bounds of the model *)

\* operations started on the memory registry in one behaviour
MaxOps == 3

\* length of the list passed to import
MaxImportLen == 2

\* calls the single caller of a MemoryRegistry makes
MaxSeqOps == 3

\* bytes added after, or cut from the end of, a canonical encoding
MaxTrailing == 2

\* calls made on a MetaAddressCache, the seconds its clock advances, and the
\* greatest max_entries it is configured with
MaxCacheOps == 4
MaxCacheTicks == 2
MaxCapacity == 2

\* calls started on a FileRegistry by its concurrent callers
MaxConcOps == 3

\* calls made on the file registry in one behaviour (open, publish, save, flush)
MaxFileOps == 4

\* process crashes in one behaviour
MaxCrashes == 1

\* seconds the clock advances in one behaviour
MaxTicks == 1

\* calls of create_stealth_payment, scan_announcement and try_discover in one behaviour
MaxStealthOps == 3

\* values of the randomness encapsulate draws
MaxRand == 2

\* number of values a digest takes
HashSpace == 16

\* re-hashes of derive_eth_key_seed that are followed
MaxRehash == 9

\* announcements in the registry a Scanner scans
MaxScanAnns == 2

\* calls made to one Scanner
MaxScanCalls == 1

-----------------------------------------------------------------------------
(* Program constants *)

KYBER_PUBLIC_KEY_SIZE == 1184
KYBER_SECRET_KEY_SIZE == 2400
KYBER_CIPHERTEXT_SIZE == 1088
VIEW_TAG_SIZE == 1
PROTOCOL_VERSION == 1
DOMAIN_VIEW_TAG == "SPECTER_VIEW_TAG_V1"
DOMAIN_ETH_KEY == "SPECTER_ETH_KEY_V1"

\* Announcement::validate accepts timestamps up to this many seconds ahead
MAX_FUTURE_SECS == 3600

\* the clock value of the initial state
StartTime == 100000

\* file format version
VERSION == 1

\* auto_save_threshold of FileRegistry::new
DEFAULT_AUTO_SAVE_THRESHOLD == 100

\* specter-scanner/src/lib.rs, line 386: a progress update every 100 announcements
PROGRESS_INTERVAL == 100

-----------------------------------------------------------------------------
(* Option<T>: None is the empty sequence, Some(x) the one-element sequence *)

None == <<>>
Some(x) == <<x>>
is_some(o) == o # <<>>
unwrap(o) == o[1]

(* A DashMap / HashMap is a function; insert adds or overwrites one key *)
EmptyMap == [k \in {} |-> 0]
contains_key(m, k) == k \in DOMAIN m
insert(m, k, v) == [x \in (DOMAIN m) \cup {k} |-> IF x = k THEN v ELSE m[x]]

SeqToSet(s) == {s[i] : i \in 1..Len(s)}
MaxOf(S) == IF S = {} THEN 0 ELSE CHOOSE x \in S : \A y \in S : y <= x
MinOf(S) == IF S = {} THEN 0 ELSE CHOOSE x \in S : \A y \in S : x <= y

-----------------------------------------------------------------------------
(* Strings are sequences of characters; str::trim and str::to_lowercase *)

is_whitespace(c) == c = " "

to_lowercase_char(c) ==
    IF c = "A" THEN "a" ELSE IF c = "B" THEN "b" ELSE IF c = "X" THEN "x" ELSE c

RECURSIVE trim_start(_)
trim_start(s) ==
    IF s = <<>> THEN s
    ELSE IF is_whitespace(Head(s)) THEN trim_start(Tail(s)) ELSE s

RECURSIVE trim_end(_)
trim_end(s) ==
    IF s = <<>> THEN s
    ELSE IF is_whitespace(s[Len(s)]) THEN trim_end(SubSeq(s, 1, Len(s) - 1)) ELSE s

trim(s) == trim_end(trim_start(s))

to_lowercase(s) == [i \in 1..Len(s) |-> to_lowercase_char(s[i])]

\* a faulty normalize_tx_hash: the case is kept
normalize_tx_hash_keep_case(hash) == trim(hash)

\* MemoryRegistry::normalize_tx_hash
normalize_tx_hash(hash) == to_lowercase(trim(hash))

-----------------------------------------------------------------------------
(* Announcement *)

\* A byte vector is its length and its content; content 0 is the all-zero vector
Bytes(len, content) == [len |-> len, content |-> content]
all_zero(b) == b.content = 0

Tags == {0, 1}

Announcement(id, ek, tag, ts, channel, tx) ==
    [id |-> id, ephemeral_key |-> ek, view_tag |-> tag, timestamp |-> ts,
     channel_id |-> channel, block_number |-> None, tx_hash |-> tx]

\* a faulty validate: a timestamp of exactly clock + 3600 is refused
validate_future_exclusive(a, clock) ==
    IF a.ephemeral_key.len # KYBER_CIPHERTEXT_SIZE THEN "ephemeral key size mismatch"
    ELSE IF all_zero(a.ephemeral_key) THEN "ephemeral key is all zeros"
    ELSE IF a.timestamp >= clock + MAX_FUTURE_SECS THEN "timestamp is too far in the future"
    ELSE "Ok"

\* Announcement::validate: Ok, or the InvalidAnnouncement error
validate(a, clock) ==
    IF a.ephemeral_key.len # KYBER_CIPHERTEXT_SIZE THEN "ephemeral key size mismatch"
    ELSE IF all_zero(a.ephemeral_key) THEN "ephemeral key is all zeros"
    ELSE IF a.timestamp > clock + MAX_FUTURE_SECS THEN "timestamp is too far in the future"
    ELSE "Ok"

-----------------------------------------------------------------------------
(* AnnouncementStats *)

AnnouncementStats_new ==
    [total_count |-> 0, view_tag_distribution |-> [t \in Tags |-> 0],
     earliest_timestamp |-> None, latest_timestamp |-> None,
     yellow_channel_count |-> 0]

\* AnnouncementStats::add
stats_add(s, a) ==
    [total_count |-> s.total_count + 1,
     view_tag_distribution |->
        [s.view_tag_distribution EXCEPT ![a.view_tag] = @ + 1],
     earliest_timestamp |->
        IF is_some(s.earliest_timestamp) /\ a.timestamp < unwrap(s.earliest_timestamp)
        THEN Some(a.timestamp)
        ELSE IF s.earliest_timestamp = None THEN Some(a.timestamp)
        ELSE s.earliest_timestamp,
     latest_timestamp |->
        IF is_some(s.latest_timestamp) /\ a.timestamp > unwrap(s.latest_timestamp)
        THEN Some(a.timestamp)
        ELSE IF s.latest_timestamp = None THEN Some(a.timestamp)
        ELSE s.latest_timestamp,
     yellow_channel_count |->
        IF is_some(a.channel_id) THEN s.yellow_channel_count + 1
        ELSE s.yellow_channel_count]

-----------------------------------------------------------------------------
(* MemoryRegistry: the accesses to its shared structures, one operator each *)

MemoryRegistry_new ==
    [announcements |-> EmptyMap, view_tag_index |-> EmptyMap,
     tx_hash_index |-> EmptyMap, next_id |-> 1, stats |-> AnnouncementStats_new]

\* a faulty index_push: the bucket is replaced, not extended
index_push_overwrite(r, tag, id) ==
    [r EXCEPT !.view_tag_index = insert(@, tag, <<id>>)]

\* view_tag_index.entry(tag).or_insert_with(Vec::new).push(id)
index_push(r, tag, id) ==
    [r EXCEPT !.view_tag_index =
        insert(@, tag, IF contains_key(@, tag) THEN Append(@[tag], id) ELSE <<id>>)]

\* tx_hash_index.insert(normalized, id)
tx_hash_insert(r, hash, id) ==
    [r EXCEPT !.tx_hash_index = insert(@, normalize_tx_hash(hash), id)]

\* stats.write().add(&ann)
stats_update(r, a) == [r EXCEPT !.stats = stats_add(@, a)]

\* announcements.insert(ann.id, ann)
store(r, a) == [r EXCEPT !.announcements = insert(@, a.id, a)]

\* MemoryRegistry::len and AnnouncementRegistry::count
count(r) == Cardinality(DOMAIN r.announcements)

\* the tx_hash test of publish: the error it returns, or "Ok"
publish_check(r, a, clock) ==
    IF validate(a, clock) # "Ok" THEN validate(a, clock)
    ELSE IF is_some(a.tx_hash) /\ normalize_tx_hash(unwrap(a.tx_hash)) = <<>>
        THEN "tx_hash cannot be empty"
    ELSE IF is_some(a.tx_hash)
            /\ contains_key(r.tx_hash_index, normalize_tx_hash(unwrap(a.tx_hash)))
        THEN "announcement with this transaction hash already exists"
    ELSE "Ok"

-----------------------------------------------------------------------------
(* The callers of the memory registry *)

Threads == {1, 2}

NoAnn == Announcement(0, Bytes(0, 0), 0, 0, None, None)

Idle ==
    [op |-> "idle", pc |-> "idle", ann |-> NoAnn, list |-> <<>>, imported |-> 0,
     ids |-> <<>>, out |-> <<>>, snap |-> {}, dup |-> FALSE]

ValidKey == Bytes(KYBER_CIPHERTEXT_SIZE, 66)
ZeroKey == Bytes(KYBER_CIPHERTEXT_SIZE, 0)

\* the announcements callers publish: two spellings of one tx_hash, a blank
\* tx_hash, none, and an all-zero key
PublishInputs ==
    { Announcement(0, ValidKey, tg, StartTime, None, tx) :
        tg \in Tags, tx \in { None, Some(<<"x", "a">>), Some(<<" ", "X", "A">>) } }
    \cup { Announcement(0, ValidKey, 0, StartTime, None, Some(<<" ">>)),
           Announcement(0, ZeroKey, 0, StartTime, None, None) }

\* the announcements import is given: id 0 asks for a fresh id
ImportAnns ==
    { Announcement(0, ValidKey, 0, StartTime, None, None),
      Announcement(1, ValidKey, 1, StartTime, None, Some(<<"x", "a">>)),
      Announcement(2, ZeroKey, 0, StartTime, None, None) }

ImportLists ==
    UNION { [1..n -> ImportAnns] : n \in 1..MaxImportLen }

CanStart(t) == th[t].op = "idle" /\ nOps < MaxOps

ReturnedIds == { publog[i].id : i \in 1..Len(publog) }

DoneIds(tag) == { publog[i].id : i \in { j \in 1..Len(publog) : publog[j].view_tag = tag } }

\* history: an announcement with the same tx_hash, up to case and surrounding
\* blanks, is stored
StoredDuplicate(r, a) ==
    /\ is_some(a.tx_hash)
    /\ \E i \in DOMAIN r.announcements :
        /\ is_some(r.announcements[i].tx_hash)
        /\ to_lowercase(trim(unwrap(r.announcements[i].tx_hash)))
                = to_lowercase(trim(unwrap(a.tx_hash)))

\* the error kind publish wraps a failed test in (lines 175 and 180; validate)
publish_error_kind(e) == "InvalidAnnouncement"

\* publish, lines 168-184: validate, then the duplicate test on tx_hash_index
publish_begin(t, a) ==
    /\ CanStart(t)
    /\ nOps' = nOps + 1
    /\ UNCHANGED <<mem, now, publog, fileVars, stealthVars>>
    /\ LET e == publish_check(mem, a, now) IN
        IF e = "Ok"
        THEN /\ th' = [th EXCEPT ![t] =
                    [Idle EXCEPT !.op = "publish", !.pc = "assign", !.ann = a,
                                 !.snap = {MaxOf(ReturnedIds)},
                                 !.dup = StoredDuplicate(mem, a)]]
             /\ errlog' = errlog
        ELSE /\ th' = th
             /\ errlog' = errlog \cup
                    {[kind |-> publish_error_kind(e), msg |-> e,
                      dup |-> StoredDuplicate(mem, a),
                      before |-> count(mem), after |-> count(mem')]}

\* publish, lines 187-188: next_id.fetch_add(1)
publish_assign(t) ==
    /\ th[t].op = "publish" /\ th[t].pc = "assign"
    /\ mem' = [mem EXCEPT !.next_id = @ + 1]
    /\ th' = [th EXCEPT ![t].ann.id = mem.next_id, ![t].pc = "index"]
    /\ UNCHANGED <<now, publog, errlog, nOps, fileVars, stealthVars>>

\* publish, lines 193-196
publish_index(t) ==
    /\ th[t].op = "publish" /\ th[t].pc = "index"
    /\ mem' = index_push(mem, th[t].ann.view_tag, th[t].ann.id)
    /\ th' = [th EXCEPT ![t].pc = IF is_some(th[t].ann.tx_hash) THEN "txhash" ELSE "stats"]
    /\ UNCHANGED <<now, publog, errlog, nOps, fileVars, stealthVars>>

\* publish, lines 199-202
publish_txhash(t) ==
    /\ th[t].op = "publish" /\ th[t].pc = "txhash"
    /\ mem' = tx_hash_insert(mem, unwrap(th[t].ann.tx_hash), th[t].ann.id)
    /\ th' = [th EXCEPT ![t].pc = "stats"]
    /\ UNCHANGED <<now, publog, errlog, nOps, fileVars, stealthVars>>

\* publish, line 205
publish_stats(t) ==
    /\ th[t].op = "publish" /\ th[t].pc = "stats"
    /\ mem' = stats_update(mem, th[t].ann)
    /\ th' = [th EXCEPT ![t].pc = "store"]
    /\ UNCHANGED <<now, publog, errlog, nOps, fileVars, stealthVars>>

\* publish, lines 208-210: store and return Ok(id)
publish_store(t) ==
    /\ th[t].op = "publish" /\ th[t].pc = "store"
    /\ mem' = store(mem, th[t].ann)
    /\ th' = [th EXCEPT ![t] = Idle]
    /\ publog' = Append(publog,
            [id |-> th[t].ann.id, view_tag |-> th[t].ann.view_tag,
             tx_hash |-> th[t].ann.tx_hash, before |-> MaxOf(th[t].snap)])
    /\ UNCHANGED <<now, errlog, nOps, fileVars, stealthVars>>

publish(t) ==
    \/ \E a \in PublishInputs : publish_begin(t, a)
    \/ publish_assign(t)
    \/ publish_index(t)
    \/ publish_txhash(t)
    \/ publish_stats(t)
    \/ publish_store(t)

-----------------------------------------------------------------------------
\* get_by_view_tag, lines 219-222: clone the bucket
get_begin(t, tag) ==
    /\ CanStart(t)
    /\ nOps' = nOps + 1
    /\ th' = [th EXCEPT ![t] =
        [Idle EXCEPT !.op = "get", !.snap = DoneIds(tag),
                     !.pc = IF contains_key(mem.view_tag_index, tag)
                            THEN "resolve" ELSE "return",
                     !.ids = IF contains_key(mem.view_tag_index, tag)
                             THEN mem.view_tag_index[tag] ELSE <<>>]]
    /\ UNCHANGED <<mem, now, publog, errlog, fileVars, stealthVars>>

\* get_by_view_tag, lines 225-229: one id of the bucket resolved against announcements
get_resolve(t) ==
    /\ th[t].op = "get" /\ th[t].pc = "resolve"
    /\ IF th[t].ids = <<>>
       THEN th' = [th EXCEPT ![t].pc = "return"]
       ELSE th' = [th EXCEPT
                ![t].ids = Tail(@),
                ![t].out = IF contains_key(mem.announcements, Head(th[t].ids))
                           THEN Append(@, mem.announcements[Head(th[t].ids)]) ELSE @]
    /\ UNCHANGED <<mem, now, publog, errlog, nOps, fileVars, stealthVars>>

\* get_by_view_tag, lines 221 and 232: return Ok(out)
get_return(t) ==
    /\ th[t].op = "get" /\ th[t].pc = "return"
    /\ th' = [th EXCEPT ![t] = Idle]
    /\ UNCHANGED <<mem, now, publog, errlog, nOps, fileVars, stealthVars>>

get_by_view_tag(t) ==
    \/ \E tag \in Tags : get_begin(t, tag)
    \/ get_resolve(t)
    \/ get_return(t)

-----------------------------------------------------------------------------
\* clear, line 84
clear_announcements(t) ==
    /\ CanStart(t)
    /\ nOps' = nOps + 1
    /\ mem' = [mem EXCEPT !.announcements = EmptyMap]
    /\ th' = [th EXCEPT ![t] = [Idle EXCEPT !.op = "clear", !.pc = "index"]]
    /\ UNCHANGED <<now, publog, errlog, fileVars, stealthVars>>

\* clear, line 85
clear_index(t) ==
    /\ th[t].op = "clear" /\ th[t].pc = "index"
    /\ mem' = [mem EXCEPT !.view_tag_index = EmptyMap]
    /\ th' = [th EXCEPT ![t].pc = "txhash"]
    /\ UNCHANGED <<now, publog, errlog, nOps, fileVars, stealthVars>>

\* clear, line 86
clear_txhash(t) ==
    /\ th[t].op = "clear" /\ th[t].pc = "txhash"
    /\ mem' = [mem EXCEPT !.tx_hash_index = EmptyMap]
    /\ th' = [th EXCEPT ![t].pc = "next_id"]
    /\ UNCHANGED <<now, publog, errlog, nOps, fileVars, stealthVars>>

\* clear, line 87
clear_next_id(t) ==
    /\ th[t].op = "clear" /\ th[t].pc = "next_id"
    /\ mem' = [mem EXCEPT !.next_id = 1]
    /\ th' = [th EXCEPT ![t].pc = "stats"]
    /\ UNCHANGED <<now, publog, errlog, nOps, fileVars, stealthVars>>

\* clear, line 88
clear_stats(t) ==
    /\ th[t].op = "clear" /\ th[t].pc = "stats"
    /\ mem' = [mem EXCEPT !.stats = AnnouncementStats_new]
    /\ th' = [th EXCEPT ![t] = Idle]
    /\ UNCHANGED <<now, publog, errlog, nOps, fileVars, stealthVars>>

clear(t) ==
    \/ clear_announcements(t)
    \/ clear_index(t)
    \/ clear_txhash(t)
    \/ clear_next_id(t)
    \/ clear_stats(t)

-----------------------------------------------------------------------------
\* import, line 112
import_begin(t, list) ==
    /\ CanStart(t)
    /\ nOps' = nOps + 1
    /\ th' = [th EXCEPT ![t] = [Idle EXCEPT !.op = "import", !.pc = "next", !.list = list]]
    /\ UNCHANGED <<mem, now, publog, errlog, fileVars, stealthVars>>

\* import, lines 115-122 and 150: take the next announcement; fetch_add, or load next_id
import_next(t) ==
    /\ th[t].op = "import" /\ th[t].pc = "next"
    /\ IF th[t].list = <<>>
       THEN /\ th' = [th EXCEPT ![t] = Idle]
            /\ mem' = mem
       ELSE LET a == Head(th[t].list) IN
            IF a.id = 0
            THEN /\ mem' = [mem EXCEPT !.next_id = @ + 1]
                 /\ th' = [th EXCEPT ![t].ann = [a EXCEPT !.id = mem.next_id],
                                     ![t].list = Tail(@), ![t].pc = "validate"]
            ELSE /\ mem' = mem
                 /\ th' = [th EXCEPT ![t].ann = a, ![t].list = Tail(@),
                                     ![t].pc = IF a.id >= mem.next_id THEN "bump"
                                               ELSE "validate"]
    /\ UNCHANGED <<now, publog, errlog, nOps, fileVars, stealthVars>>

\* import, line 123: next_id.store(ann.id + 1)
import_bump(t) ==
    /\ th[t].op = "import" /\ th[t].pc = "bump"
    /\ mem' = [mem EXCEPT !.next_id = th[t].ann.id + 1]
    /\ th' = [th EXCEPT ![t].pc = "validate"]
    /\ UNCHANGED <<now, publog, errlog, nOps, fileVars, stealthVars>>

\* import, lines 128-134: validate (an error ends the import), then push the id
import_index(t) ==
    /\ th[t].op = "import" /\ th[t].pc = "validate"
    /\ IF validate(th[t].ann, now) # "Ok"
       THEN /\ th' = [th EXCEPT ![t] = Idle]
            /\ mem' = mem
       ELSE /\ mem' = index_push(mem, th[t].ann.view_tag, th[t].ann.id)
            /\ th' = [th EXCEPT ![t].pc =
                    IF is_some(th[t].ann.tx_hash) THEN "txhash" ELSE "stats"]
    /\ UNCHANGED <<now, publog, errlog, nOps, fileVars, stealthVars>>

\* import, lines 137-140
import_txhash(t) ==
    /\ th[t].op = "import" /\ th[t].pc = "txhash"
    /\ mem' = tx_hash_insert(mem, unwrap(th[t].ann.tx_hash), th[t].ann.id)
    /\ th' = [th EXCEPT ![t].pc = "stats"]
    /\ UNCHANGED <<now, publog, errlog, nOps, fileVars, stealthVars>>

\* import, line 143
import_stats(t) ==
    /\ th[t].op = "import" /\ th[t].pc = "stats"
    /\ mem' = stats_update(mem, th[t].ann)
    /\ th' = [th EXCEPT ![t].pc = "store"]
    /\ UNCHANGED <<now, publog, errlog, nOps, fileVars, stealthVars>>

\* import, lines 146-147
import_store(t) ==
    /\ th[t].op = "import" /\ th[t].pc = "store"
    /\ mem' = store(mem, th[t].ann)
    /\ th' = [th EXCEPT ![t].imported = @ + 1, ![t].pc = "next"]
    /\ UNCHANGED <<now, publog, errlog, nOps, fileVars, stealthVars>>

import(t) ==
    \/ \E list \in ImportLists : import_begin(t, list)
    \/ import_next(t)
    \/ import_bump(t)
    \/ import_index(t)
    \/ import_txhash(t)
    \/ import_stats(t)
    \/ import_store(t)

-----------------------------------------------------------------------------
(* The file registry is not part of the memory-registry specifications *)

NoCall == [op |-> "none", pc |-> "idle", pre |-> MemoryRegistry_new, id |-> 0]

NoResult == [op |-> "none", result |-> "none", pre |-> MemoryRegistry_new, id |-> 0]

\* the history of a FileRegistry: published counts the publish calls that
\* returned Ok since the registry was created or last saved; wrote tells that
\* the call in progress or returned last created or truncated a file;
\* was_dirty is the dirty flag when that call started
NoHistory == [published |-> 0, wrote |-> FALSE, was_dirty |-> FALSE]

FileUnused ==
    /\ fh = NoHistory
    /\ path = [stem |-> "registry", ext |-> "bin"]
    /\ fs = EmptyMap
    /\ fr = [alive |-> FALSE, dirty |-> FALSE, writes_since_save |-> 0,
             auto_save_threshold |-> 0]
    /\ fcall = NoCall
    /\ flast = NoResult
    /\ nCrash = 0

NoPayment == [result |-> "none"]
NoScan == [op |-> "none", pc |-> "idle"]

\* the stealth pipeline is not used
NoSeed == [pc |-> "idle"]
NoScanner == [pc |-> "idle"]

NoSeq == [op |-> "none"]
NoCodec == [op |-> "none"]
NoCache == [max_entries |-> 0]
NoConc == [alive |-> FALSE]

\* no registry with one caller, no from_bytes call, no cache, no FileRegistry
\* with concurrent callers
ExtraUnused ==
    /\ sq = NoSeq
    /\ cd = NoCodec
    /\ ca = NoCache
    /\ cf = NoConc

\* derive_eth_key_seed is not called alone, and there is no Scanner
ScannerUnused ==
    /\ kd = NoSeed
    /\ sc = NoScanner

StealthUnused ==
    /\ pay = NoPayment
    /\ scan = NoScan
    /\ ScannerUnused

-----------------------------------------------------------------------------
(* The memory registry under concurrent callers *)

RegInit ==
    /\ FileUnused
    /\ ExtraUnused
    /\ StealthUnused
    /\ mem = MemoryRegistry_new
    /\ th = [t \in Threads |-> Idle]
    /\ now = StartTime
    /\ publog = <<>>
    /\ errlog = {}
    /\ nOps = 0

\* concurrent publish and get_by_view_tag
RegNext ==
    \/ \E t \in Threads : publish(t)
    \/ \E t \in Threads : get_by_view_tag(t)

SpecReg == RegInit /\ [][RegNext]_vars

\* concurrent publish, get_by_view_tag, clear and import
RegAllNext ==
    \/ \E t \in Threads : publish(t)
    \/ \E t \in Threads : get_by_view_tag(t)
    \/ \E t \in Threads : clear(t)
    \/ \E t \in Threads : import(t)

SpecRegAll == RegInit /\ [][RegAllNext]_vars

\* concurrent publish and import
PubImpNext ==
    \/ \E t \in Threads : publish(t)
    \/ \E t \in Threads : import(t)

SpecPubImp == RegInit /\ [][PubImpNext]_vars

AllIdle == \A t \in Threads : th[t].op = "idle"

-----------------------------------------------------------------------------
(* Properties of the memory registry *)

Bucket(r, tag) ==
    IF contains_key(r.view_tag_index, tag) THEN r.view_tag_index[tag] ELSE <<>>

NoRepeat(s) == \A i, j \in 1..Len(s) : i # j => s[i] # s[j]

IndexAgrees(r) ==
    \A tag \in Tags :
        /\ SeqToSet(Bucket(r, tag)) =
                { i \in DOMAIN r.announcements : r.announcements[i].view_tag = tag }
        /\ NoRepeat(Bucket(r, tag))

SameTxHash(h1, h2) ==
    /\ is_some(h1) /\ is_some(h2)
    /\ to_lowercase(trim(unwrap(h1))) = to_lowercase(trim(unwrap(h2)))

\* C2: whenever no call is in progress, every bucket of view_tag_index holds
\* exactly the ids of the stored announcements with that view tag, each once.
C2_IndexAgreesWithStore == AllIdle => IndexAgrees(mem)

\* C3: a get_by_view_tag(t) that started after a publish with tag t returned Ok
\* returns that announcement, and once no call is in progress count() is the
\* number of publish calls that returned Ok.
C3_PublishedIsObservable ==
    /\ \A t \in Threads :
        (th[t].op = "get" /\ th[t].pc = "return")
            => th[t].snap \subseteq { th[t].out[i].id : i \in 1..Len(th[t].out) }
    /\ AllIdle => count(mem) = Len(publog)

\* C3 witness: a get is about to return an announcement whose publish had
\* returned before it started, while the other caller is inside a publish.
C3_Witness ==
    \E t \in Threads :
        /\ th[t].op = "get" /\ th[t].pc = "return"
        /\ Cardinality(th[t].snap) = 1
        /\ th[t].snap \subseteq { th[t].out[i].id : i \in 1..Len(th[t].out) }
        /\ \E u \in Threads : th[u].op = "publish" /\ th[u].pc = "store"

\* C4: no two publish calls whose tx_hash is the same after trimming and
\* lower-casing both return Ok, and no two stored announcements carry the same
\* normalized tx_hash.
C4_OneWinnerPerTxHash ==
    /\ \A i, j \in 1..Len(publog) :
        i # j => ~SameTxHash(publog[i].tx_hash, publog[j].tx_hash)
    /\ \A i, j \in DOMAIN mem.announcements :
        i # j => ~SameTxHash(mem.announcements[i].tx_hash, mem.announcements[j].tx_hash)

\* C5: no two successful publish calls return the same id, and a publish that
\* starts after another has returned gets a larger id.
C5_IdsUniqueAndIncreasing ==
    /\ \A i, j \in 1..Len(publog) : i # j => publog[i].id # publog[j].id
    /\ \A i \in 1..Len(publog) : publog[i].id > publog[i].before

\* C6 as claimed: a publish whose tx_hash is, after trimming and lower-casing,
\* that of a stored announcement fails with DuplicateAnnouncement and leaves
\* count() as it was.
C6_DuplicateKind ==
    \A e \in errlog :
        e.dup => (e.kind = "DuplicateAnnouncement" /\ e.after = e.before)

\* C6 as amended: such a publish fails with InvalidAnnouncement and leaves
\* count() as it was; it never gets past the duplicate test.
C6_DuplicateRejected ==
    /\ \A t \in Threads : th[t].op = "publish" => ~th[t].dup
    /\ \A e \in errlog :
        e.dup => (e.kind = "InvalidAnnouncement" /\ e.after = e.before)

\* C6 witness: with one announcement stored, a publish of another spelling of
\* its tx_hash was refused by the duplicate test.
C6_Witness ==
    \E e \in errlog :
        /\ e.dup /\ e.before = 1 /\ e.after = 1
        /\ e.msg = "announcement with this transaction hash already exists"

\* C21: whenever no publish or import call is in progress, next_id is greater
\* than the id of every stored announcement, so the next publish does not
\* reuse a stored id.
C21_NextIdAboveStored ==
    AllIdle => \A i \in DOMAIN mem.announcements : i < mem.next_id

-----------------------------------------------------------------------------
(* MemoryRegistry called by one caller: the steps of an operation in sequence *)

Ok(r, id) == [result |-> "Ok", reg |-> r, id |-> id]
Err(r, kind) == [result |-> kind, reg |-> r, id |-> 0]

\* MemoryRegistry::publish
publish_seq(r, a, clock) ==
    IF publish_check(r, a, clock) # "Ok" THEN Err(r, publish_error_kind("check"))
    ELSE LET id == r.next_id
             a1 == [a EXCEPT !.id = id]
             r1 == [r EXCEPT !.next_id = @ + 1]
             r2 == index_push(r1, a1.view_tag, id)
             r3 == IF is_some(a1.tx_hash)
                   THEN tx_hash_insert(r2, unwrap(a1.tx_hash), id) ELSE r2
         IN Ok(store(stats_update(r3, a1), a1), id)

\* a faulty import_one: next_id is left as it was
import_one_keep_next_id(r, a, clock) ==
    IF validate(a, clock) # "Ok" THEN Err(r, "InvalidAnnouncement")
    ELSE LET r2 == index_push(r, a.view_tag, a.id)
             r3 == IF is_some(a.tx_hash)
                   THEN tx_hash_insert(r2, unwrap(a.tx_hash), a.id) ELSE r2
         IN Ok(store(stats_update(r3, a), a), a.id)

\* MemoryRegistry::import, the body of its loop (lines 115-147)
import_one(r, a, clock) ==
    LET id == IF a.id = 0 THEN r.next_id ELSE a.id
        a1 == [a EXCEPT !.id = id]
        r1 == IF a.id = 0 THEN [r EXCEPT !.next_id = @ + 1]
              ELSE IF a.id >= r.next_id THEN [r EXCEPT !.next_id = a.id + 1]
              ELSE r
    IN  IF validate(a1, clock) # "Ok" THEN Err(r1, "InvalidAnnouncement")
        ELSE LET r2 == index_push(r1, a1.view_tag, id)
                 r3 == IF is_some(a1.tx_hash)
                       THEN tx_hash_insert(r2, unwrap(a1.tx_hash), id) ELSE r2
             IN Ok(store(stats_update(r3, a1), a1), id)

\* MemoryRegistry::import
RECURSIVE import_seq(_, _, _)
import_seq(r, list, clock) ==
    IF list = <<>> THEN Ok(r, 0)
    ELSE LET one == import_one(r, Head(list), clock) IN
         IF one.result # "Ok" THEN one
         ELSE import_seq(one.reg, Tail(list), clock)

\* MemoryRegistry::all_announcements: the stored announcements in the map's
\* iteration order, which is any order
all_announcements(r) ==
    LET ids == DOMAIN r.announcements
        n == Cardinality(ids)
    IN { [i \in 1..n |-> r.announcements[f[i]]] :
            f \in { g \in [1..n -> ids] : \A i, j \in 1..n : i # j => g[i] # g[j] } }

-----------------------------------------------------------------------------
(* One caller of a MemoryRegistry: publish and import, one call at a time *)

ShortKey == Bytes(KYBER_CIPHERTEXT_SIZE - 1, 66)
LongKey == Bytes(KYBER_CIPHERTEXT_SIZE + 1, 66)

ChannelId == 7

\* the announcements the caller publishes: two spellings of one tx_hash, a
\* blank tx_hash, a channel, keys one byte short and long and all zero, and
\* timestamps at and one second past the limit
SeqPublishInputs ==
    { Announcement(0, ValidKey, tg, StartTime, None, tx) :
        tg \in Tags, tx \in { None, Some(<<"x", "a">>), Some(<<" ", "X", "A">>) } }
    \cup { Announcement(0, ValidKey, 0, StartTime, None, Some(<<" ">>)),
           Announcement(0, ValidKey, 1, StartTime - 1, Some(ChannelId), None) }
    \cup { Announcement(0, k, 0, StartTime + MAX_FUTURE_SECS + d, None, None) :
            k \in {ValidKey, ZeroKey, ShortKey, LongKey}, d \in {0, 1} }

\* the lists the caller imports: a fresh id (id 0) or a given one, a tx_hash
\* that publish stores in another spelling, a blank tx_hash, and an all-zero
\* key, which ends the import
SeqImportLists ==
    LET fresh == Announcement(0, ValidKey, 0, StartTime, None, None)
        spelled == Announcement(0, ValidKey, 1, StartTime, None, Some(<<" ", "X", "A">>))
        blank == Announcement(0, ValidKey, 1, StartTime, None, Some(<<" ">>))
        given == Announcement(1, ValidKey, 1, StartTime - 1, Some(ChannelId), Some(<<"x", "a">>))
        zero == Announcement(2, ZeroKey, 0, StartTime, None, None)
    IN  { <<fresh>>, <<given>>, <<spelled>>, <<blank>>, <<fresh, given>>, <<zero, fresh>> }

\* AnnouncementRegistry::publish, the whole call
SeqPublish(a) ==
    /\ sq.n < MaxSeqOps
    /\ LET res == publish_seq(mem, a, now) IN
        /\ mem' = res.reg
        /\ sq' = [op |-> "publish", n |-> sq.n + 1, ann |-> a, list |-> <<>>,
                  result |-> res.result, id |-> res.id, pre |-> mem]
    /\ UNCHANGED <<th, now, publog, errlog, nOps, fileVars, pay, scan, kd, sc, cd, ca, cf>>

\* MemoryRegistry::import, the whole call
SeqImport(list) ==
    /\ sq.n < MaxSeqOps
    /\ LET res == import_seq(mem, list, now) IN
        /\ mem' = res.reg
        /\ sq' = [op |-> "import", n |-> sq.n + 1, ann |-> NoAnn, list |-> list,
                  result |-> res.result, id |-> 0, pre |-> mem]
    /\ UNCHANGED <<th, now, publog, errlog, nOps, fileVars, pay, scan, kd, sc, cd, ca, cf>>

SeqInit ==
    /\ FileUnused
    /\ pay = NoPayment /\ scan = NoScan /\ ScannerUnused
    /\ cd = NoCodec /\ ca = NoCache /\ cf = NoConc
    /\ mem = MemoryRegistry_new
    /\ th = [t \in Threads |-> Idle]
    /\ now = StartTime
    /\ publog = <<>>
    /\ errlog = {}
    /\ nOps = 0
    /\ sq = [op |-> "new", n |-> 0, ann |-> NoAnn, list |-> <<>>, result |-> "Ok",
             id |-> 0, pre |-> MemoryRegistry_new]

SeqNext ==
    \/ \E a \in SeqPublishInputs : SeqPublish(a)
    \/ \E list \in SeqImportLists : SeqImport(list)

SpecSeq == SeqInit /\ [][SeqNext]_vars

\* the stored announcements that carry a tx_hash
StoredTx(r) == { i \in DOMAIN r.announcements : is_some(r.announcements[i].tx_hash) }

\* C22: after any sequence of publish and import calls, no two stored
\* announcements have tx hashes that are equal after trimming and
\* lower-casing, no stored tx_hash is empty after trimming, and the keys of
\* tx_hash_index are exactly the normalized tx hashes of the stored
\* announcements, each mapped to the id of the announcement that carries it.
C22_TxHashesUniqueAndIndexed ==
    /\ \A i, j \in DOMAIN mem.announcements :
        i # j => ~SameTxHash(mem.announcements[i].tx_hash, mem.announcements[j].tx_hash)
    /\ \A i \in StoredTx(mem) : trim(unwrap(mem.announcements[i].tx_hash)) # <<>>
    /\ DOMAIN mem.tx_hash_index =
            { to_lowercase(trim(unwrap(mem.announcements[i].tx_hash))) : i \in StoredTx(mem) }
    /\ \A i \in StoredTx(mem) :
        LET h == to_lowercase(trim(unwrap(mem.announcements[i].tx_hash))) IN
        h \in DOMAIN mem.tx_hash_index => mem.tx_hash_index[h] = i

\* C23: between calls the statistics describe exactly the stored
\* announcements: total_count is count(), the count of each tag is the number
\* of stored announcements with that tag, the channel count is the number of
\* stored announcements with a channel_id, and earliest / latest are the
\* least / greatest stored timestamp, both absent iff nothing is stored.
C23_StatsDescribeStored ==
    LET ids == DOMAIN mem.announcements
        times == { mem.announcements[i].timestamp : i \in ids }
    IN  /\ mem.stats.total_count = count(mem)
        /\ \A t \in Tags :
            mem.stats.view_tag_distribution[t] =
                Cardinality({ i \in ids : mem.announcements[i].view_tag = t })
        /\ mem.stats.yellow_channel_count =
                Cardinality({ i \in ids : is_some(mem.announcements[i].channel_id) })
        /\ mem.stats.earliest_timestamp = IF ids = {} THEN None ELSE Some(MinOf(times))
        /\ mem.stats.latest_timestamp = IF ids = {} THEN None ELSE Some(MaxOf(times))

\* the announcements C24 names: a key of 1088 bytes, not all zero, and a
\* timestamp of at most the clock + 3600
Accepts(a, clock) ==
    /\ a.ephemeral_key.len = 1088
    /\ a.ephemeral_key.content # 0
    /\ a.timestamp <= clock + 3600

\* the tx_hash of a is absent, or not blank and not a key of tx_hash_index
TxHashFree(r, a) ==
    \/ a.tx_hash = None
    \/ /\ trim(unwrap(a.tx_hash)) # <<>>
       /\ to_lowercase(trim(unwrap(a.tx_hash))) \notin DOMAIN r.tx_hash_index

\* C24 as stated: validate, and publish, accept an announcement exactly when
\* its key has 1088 bytes and is not all zero and its timestamp is at most
\* now + 3600.
C24_PublishAcceptsIffValid ==
    sq.op = "publish" =>
        /\ validate(sq.ann, now) = "Ok" <=> Accepts(sq.ann, now)
        /\ sq.result = "Ok" <=> Accepts(sq.ann, now)

\* C24: validate accepts an announcement exactly when its key has 1088 bytes
\* and is not all zero and its timestamp is at most now + 3600; publish
\* accepts it exactly when validate does and its tx_hash, if it has one, is
\* not blank and not yet in the tx-hash index; a refused publish leaves the
\* registry as it was.
C24_ValidateExact ==
    sq.op = "publish" =>
        /\ validate(sq.ann, now) = "Ok" <=> Accepts(sq.ann, now)
        /\ sq.result = "Ok" <=> (Accepts(sq.ann, now) /\ TxHashFree(sq.pre, sq.ann))
        /\ sq.result = "Ok" => count(mem) = count(sq.pre) + 1
        /\ sq.result # "Ok" => mem = sq.pre

\* C24 witness: a publish with a timestamp of exactly now + 3600 was accepted
\* after a publish with a bad key or a timestamp of now + 3601 was refused.
C24_Witness ==
    /\ sq.op = "publish" /\ sq.result = "Ok"
    /\ sq.ann.timestamp = now + MAX_FUTURE_SECS
    /\ sq.n = 2 /\ count(mem) = 1

-----------------------------------------------------------------------------
(* The registry file *)

MAGIC == "SPEC"

\* hex::encode and hex::decode, as serde(with = "hex") uses them
hex_encode(b) == [hexlen |-> 2 * b.len, digits |-> b.content]
hex_decode(h) == Bytes(h.hexlen \div 2, h.digits)

\* Serialize for Announcement: a None field is left out (skip_serializing_if)
to_json(a) ==
    [id |-> a.id, ephemeral_key |-> hex_encode(a.ephemeral_key),
     view_tag |-> a.view_tag, timestamp |-> a.timestamp]
    @@ (IF is_some(a.channel_id) THEN "channel_id" :> unwrap(a.channel_id) ELSE EmptyMap)
    @@ (IF is_some(a.block_number) THEN "block_number" :> unwrap(a.block_number) ELSE EmptyMap)
    @@ (IF is_some(a.tx_hash) THEN "tx_hash" :> unwrap(a.tx_hash) ELSE EmptyMap)

\* Deserialize for Announcement: a missing optional field is None (serde default)
from_json(j) ==
    [id |-> j["id"], ephemeral_key |-> hex_decode(j["ephemeral_key"]),
     view_tag |-> j["view_tag"], timestamp |-> j["timestamp"],
     channel_id |-> IF "channel_id" \in DOMAIN j THEN Some(j["channel_id"]) ELSE None,
     block_number |-> IF "block_number" \in DOMAIN j THEN Some(j["block_number"]) ELSE None,
     tx_hash |-> IF "tx_hash" \in DOMAIN j THEN Some(j["tx_hash"]) ELSE None]

\* save, lines 134-148: magic, version, count and the JSON array
file_contents(anns) ==
    [magic |-> MAGIC, version |-> VERSION, count |-> Len(anns),
     payload |-> [i \in 1..Len(anns) |-> to_json(anns[i])]]

NoData == [magic |-> "", version |-> 0, count |-> 0, payload |-> <<>>]

\* A file: the bytes meant for it, how many of them it holds ("empty": fewer
\* than the 13 bytes of the header, "header": the header alone, "partial":
\* the header and a prefix of the JSON, "full": all), whether they
\* were synced, and (history) the registry it was serialized from
File(data, written, synced, of) ==
    [data |-> data, written |-> written, synced |-> synced, of |-> of]

Truncations == {"empty", "header", "partial"}

\* Path::with_extension
with_extension(p, ext) == [p EXCEPT !.ext = ext]

\* fs::rename(from, to)
rename(files, from, to) ==
    IF from = to THEN files
    ELSE [q \in ((DOMAIN files) \ {from}) \cup {to} |->
            IF q = to THEN files[from] ELSE files[q]]

\* load, lines 90-128, on the bytes of one file
load(file, clock) ==
    IF file.written = "empty" THEN Err(MemoryRegistry_new, "RegistryError")
    ELSE IF file.data.magic # MAGIC THEN Err(MemoryRegistry_new, "RegistryError")
    ELSE IF file.data.version # VERSION THEN Err(MemoryRegistry_new, "VersionMismatch")
    ELSE IF file.written = "header" THEN Ok(MemoryRegistry_new, 0)
    ELSE IF file.written = "partial"
        THEN Err(MemoryRegistry_new, "BinarySerializationError")
    ELSE import_seq(MemoryRegistry_new,
                    [i \in 1..Len(file.data.payload) |-> from_json(file.data.payload[i])],
                    clock)

-----------------------------------------------------------------------------
(* FileRegistry, called by one caller; save is split at its file-system calls *)

Paths == { [stem |-> "registry", ext |-> "bin"], [stem |-> "registry", ext |-> "tmp"] }

AutoSaveThresholds == {0, 2, DEFAULT_AUTO_SAVE_THRESHOLD}

\* the announcements published to the file registry at clock value c
FilePublishInputs(c) ==
    { Announcement(0, ValidKey, 0, c, None, None),
      Announcement(0, ValidKey, 1, c + MAX_FUTURE_SECS, Some(7), Some(<<"x", "a">>)),
      Announcement(0, ZeroKey, 0, c, None, None) }

\* a call starts: nothing written yet, the dirty flag as the call finds it
CallStarts(h) == [h EXCEPT !.wrote = FALSE, !.was_dirty = fr.dirty]

FileIdle == fr.alive /\ fcall.pc = "idle" /\ nOps < MaxFileOps

Returned(op, result, pre, id) == [op |-> op, result |-> result, pre |-> pre, id |-> id]

StartSave(op, pre, id) == [op |-> op, pc |-> "create", pre |-> pre, id |-> id]

\* FileRegistry::new and with_auto_save, lines 56-81: load the file if it exists
Open(threshold) ==
    /\ ~fr.alive /\ nOps < MaxFileOps
    /\ nOps' = nOps + 1
    /\ fcall' = NoCall
    /\ IF path \in DOMAIN fs
       THEN LET l == load(fs[path], now) IN
            IF l.result = "Ok"
            THEN /\ mem' = l.reg
                 /\ fr' = [alive |-> TRUE, dirty |-> FALSE, writes_since_save |-> 0,
                           auto_save_threshold |-> threshold]
                 /\ flast' = Returned("open", "Ok", fs[path].of, 0)
            ELSE /\ mem' = MemoryRegistry_new
                 /\ fr' = fr
                 /\ flast' = Returned("open", l.result, fs[path].of, 0)
       ELSE /\ mem' = MemoryRegistry_new
            /\ fr' = [alive |-> TRUE, dirty |-> FALSE, writes_since_save |-> 0,
                      auto_save_threshold |-> threshold]
            /\ flast' = Returned("new", "Ok", MemoryRegistry_new, 0)
    /\ fh' = NoHistory
    /\ UNCHANGED <<th, now, publog, errlog, path, fs, nCrash, pay, scan, kd, sc, sq, cd, ca, cf>>

\* a faulty auto_save_due: the counter is tested after its increment
auto_save_due_after_increment(f) == f.writes_since_save + 1 >= f.auto_save_threshold

\* maybe_auto_save, lines 205-206: fetch_add returns the counter as it was
\* before the increment, and this is what the test that starts a save reads
auto_save_due(f) == f.writes_since_save >= f.auto_save_threshold

\* a faulty flush_saves: flush saves whatever the dirty flag
flush_saves_always(f) == TRUE

\* flush, line 172: is_dirty()
flush_saves(f) == f.dirty

\* FileRegistry::publish, lines 225-229, up to the call of save
FilePublish(a) ==
    /\ FileIdle
    /\ nOps' = nOps + 1
    /\ LET p == publish_seq(mem, a, now) IN
        IF p.result # "Ok"
        THEN /\ mem' = p.reg
             /\ fr' = fr
             /\ fcall' = fcall
             /\ flast' = Returned("publish", p.result, mem, 0)
             /\ fh' = CallStarts(fh)
        ELSE /\ mem' = p.reg
             /\ fr' = [fr EXCEPT !.dirty = TRUE, !.writes_since_save = @ + 1]
             /\ IF auto_save_due(fr)
                THEN /\ fcall' = StartSave("publish", mem, p.id)
                     /\ flast' = NoResult
                     /\ fh' = CallStarts(fh)
                ELSE /\ fcall' = fcall
                     /\ flast' = Returned("publish", "Ok", mem, p.id)
                     /\ fh' = [CallStarts(fh) EXCEPT !.published = @ + 1]
    /\ UNCHANGED <<th, now, publog, errlog, path, fs, nCrash, pay, scan, kd, sc, sq, cd, ca, cf>>

\* a call of FileRegistry::save
Save ==
    /\ FileIdle
    /\ nOps' = nOps + 1
    /\ fcall' = StartSave("save", mem, 0)
    /\ flast' = NoResult
    /\ fh' = CallStarts(fh)
    /\ UNCHANGED <<mem, th, now, publog, errlog, path, fs, fr, nCrash, pay, scan, kd, sc, sq, cd, ca, cf>>

\* FileRegistry::flush, lines 171-176
Flush ==
    /\ FileIdle
    /\ nOps' = nOps + 1
    /\ IF flush_saves(fr)
       THEN /\ fcall' = StartSave("flush", mem, 0)
            /\ flast' = NoResult
       ELSE /\ fcall' = fcall
            /\ flast' = Returned("flush", "Ok", mem, 0)
    /\ fh' = CallStarts(fh)
    /\ UNCHANGED <<mem, th, now, publog, errlog, path, fs, fr, nCrash, pay, scan, kd, sc, sq, cd, ca, cf>>

\* an I/O error ends save, and the call that made it, with Err
SaveFails ==
    /\ fcall' = NoCall
    /\ flast' = Returned(fcall.op, "IoError", fcall.pre, 0)

\* save, lines 134-152: serialize, then File::create(temp_path) truncates or fails
save_create ==
    /\ fcall.pc = "create"
    /\ \/ /\ fs' = insert(fs, with_extension(path, "tmp"), File(NoData, "empty", FALSE, mem))
          /\ \E anns \in all_announcements(mem) :
                fcall' = [pc |-> "write", op |-> fcall.op, pre |-> fcall.pre,
                          id |-> fcall.id, contents |-> file_contents(anns), of |-> mem]
          /\ flast' = flast
          /\ fh' = [fh EXCEPT !.wrote = TRUE]
       \/ /\ fs' = fs
          /\ SaveFails
          /\ fh' = fh
    /\ UNCHANGED <<mem, th, now, publog, errlog, nOps, path, fr, nCrash, pay, scan, kd, sc, sq, cd, ca, cf>>

\* save, line 153: write_all writes everything, or fails after a prefix
save_write ==
    /\ fcall.pc = "write"
    /\ \/ /\ fs' = insert(fs, with_extension(path, "tmp"),
                          File(fcall.contents, "full", FALSE, fcall.of))
          /\ fcall' = [fcall EXCEPT !.pc = "sync"]
          /\ flast' = flast
       \/ /\ \E w \in Truncations :
                fs' = insert(fs, with_extension(path, "tmp"),
                             File(fcall.contents, w, FALSE, fcall.of))
          /\ SaveFails
    /\ UNCHANGED <<mem, th, now, publog, errlog, nOps, path, fr, nCrash, fh, pay, scan, kd, sc, sq, cd, ca, cf>>

\* save, line 154: sync_all
save_sync ==
    /\ fcall.pc = "sync"
    /\ \/ /\ fs' = [fs EXCEPT ![with_extension(path, "tmp")].synced = TRUE]
          /\ fcall' = [fcall EXCEPT !.pc = "rename"]
          /\ flast' = flast
       \/ /\ fs' = fs
          /\ SaveFails
    /\ UNCHANGED <<mem, th, now, publog, errlog, nOps, path, fr, nCrash, fh, pay, scan, kd, sc, sq, cd, ca, cf>>

\* save, line 156: rename the temp file over the registry file
save_rename ==
    /\ fcall.pc = "rename"
    /\ \/ /\ fs' = rename(fs, with_extension(path, "tmp"), path)
          /\ fcall' = [fcall EXCEPT !.pc = "finish"]
          /\ flast' = flast
       \/ /\ fs' = fs
          /\ SaveFails
    /\ UNCHANGED <<mem, th, now, publog, errlog, nOps, path, fr, nCrash, fh, pay, scan, kd, sc, sq, cd, ca, cf>>

\* save, lines 158-162: clear the dirty flag and the counter, return Ok
save_finish ==
    /\ fcall.pc = "finish"
    /\ fr' = [fr EXCEPT !.dirty = FALSE, !.writes_since_save = 0]
    /\ fh' = [fh EXCEPT !.published = 0]
    /\ fcall' = NoCall
    /\ flast' = Returned(fcall.op, "Ok", fcall.pre, fcall.id)
    /\ UNCHANGED <<mem, th, now, publog, errlog, nOps, path, fs, nCrash, pay, scan, kd, sc, sq, cd, ca, cf>>

\* what a crash leaves of a file: synced bytes stay, unsynced bytes may be lost
AfterCrash(f) ==
    IF f.synced THEN {f}
    ELSE {f} \cup { File(f.data, w, FALSE, f.of) :
                        w \in IF f.written = "empty" THEN {"empty"} ELSE Truncations }

\* the process dies: the registry object is gone, the files stay
Crash ==
    /\ fr.alive /\ nCrash < MaxCrashes
    /\ nCrash' = nCrash + 1
    /\ fr' = [fr EXCEPT !.alive = FALSE]
    /\ mem' = MemoryRegistry_new
    /\ fcall' = NoCall
    /\ flast' = NoResult
    /\ fh' = NoHistory
    /\ fs' \in { g \in [DOMAIN fs -> UNION { AfterCrash(fs[q]) : q \in DOMAIN fs }] :
                    \A q \in DOMAIN fs : g[q] \in AfterCrash(fs[q]) }
    /\ UNCHANGED <<th, now, publog, errlog, nOps, path, pay, scan, kd, sc, sq, cd, ca, cf>>

\* the clock advances; save does not read it, so it advances between calls
Tick ==
    /\ fcall.pc = "idle"
    /\ now < StartTime + MaxTicks
    /\ now' = now + 1
    /\ UNCHANGED <<mem, th, publog, errlog, nOps, path, fs, fr, fcall, flast, nCrash, fh, pay, scan, kd, sc, sq, cd, ca, cf>>

FileInit ==
    /\ mem = MemoryRegistry_new
    /\ th = [t \in Threads |-> Idle]
    /\ now = StartTime
    /\ publog = <<>>
    /\ errlog = {}
    /\ nOps = 0
    /\ path \in Paths
    /\ fs = EmptyMap
    /\ fr = [alive |-> FALSE, dirty |-> FALSE, writes_since_save |-> 0,
             auto_save_threshold |-> 0]
    /\ fcall = NoCall
    /\ flast = NoResult
    /\ nCrash = 0
    /\ fh = NoHistory
    /\ StealthUnused
    /\ ExtraUnused

FileNext ==
    \/ \E threshold \in AutoSaveThresholds : Open(threshold)
    \/ \E a \in FilePublishInputs(now) : FilePublish(a)
    \/ Save
    \/ Flush
    \/ save_create
    \/ save_write
    \/ save_sync
    \/ save_rename
    \/ save_finish
    \/ Crash
    \/ Tick

SpecFile == FileInit /\ [][FileNext]_vars

-----------------------------------------------------------------------------
(* Properties of the file registry *)

\* AnnouncementRegistry::next_id
next_id(r) == r.next_id

\* the set of announcements get_by_view_tag(tag) returns, called alone
get_by_view_tag_set(r, tag) ==
    { r.announcements[id] : id \in SeqToSet(Bucket(r, tag)) \cap DOMAIN r.announcements }

\* the registry file holds every byte of a save
SavedInFull == path \in DOMAIN fs /\ fs[path].written = "full"

\* C7: a FileRegistry opened on a file that save wrote in full, from a registry
\* R built by successful publishes, opens without error and holds the same
\* announcements under the same ids as R, returns the same set from
\* get_by_view_tag for every tag, has the same statistics, and its next_id is
\* the greatest stored id plus one.
C7_LoadReproducesSave ==
    (flast.op = "open" /\ SavedInFull) =>
        /\ flast.result = "Ok"
        /\ mem.announcements = flast.pre.announcements
        /\ \A tag \in Tags :
              get_by_view_tag_set(mem, tag) = get_by_view_tag_set(flast.pre, tag)
        /\ mem.stats = flast.pre.stats
        /\ next_id(mem) = MaxOf(DOMAIN mem.announcements \cup {0}) + 1

C7_Witness ==
    /\ flast.op = "open" /\ flast.result = "Ok" /\ SavedInFull
    /\ path.ext = "bin" /\ nCrash = 1
    /\ count(mem) = 2
    /\ \E id \in DOMAIN mem.announcements : is_some(mem.announcements[id].tx_hash)
    /\ next_id(mem) = 3

\* C8: after a crash the file at the registry path, if there is one, is a
\* complete snapshot, and after a save that returned Ok no temp file is left
\* beside the registry file.
C8_SaveIsCrashAtomic ==
    /\ (nCrash > 0 /\ ~fr.alive /\ path \in DOMAIN fs) => fs[path].written = "full"
    /\ (flast.op = "save" /\ flast.result = "Ok") => DOMAIN fs = {path}

\* C9: when FileRegistry::publish returns an error, the in-memory registry is
\* the one the call started from.
C9_FailedPublishLeavesMemory ==
    (flast.op = "publish" /\ flast.result # "Ok") => mem = flast.pre

-----------------------------------------------------------------------------
(* Further properties of the file registry *)

\* a save is in progress
Saving == fcall.pc # "idle"

\* the registry file holds, in full, the announcements now in memory
FileHoldsAll == SavedInFull /\ fs[path].of = mem

\* C19: with auto-save threshold N, a publish starts a save exactly when N
\* publishes have returned Ok since the registry was created or last saved:
\* the first N publishes write nothing and publish N + 1 writes the file,
\* with every announcement published so far; after the save the count is zero.
C19_AutoSaveAfterThreshold ==
    /\ (Saving /\ fcall.op = "publish") => fh.published = fr.auto_save_threshold
    /\ (flast.op = "publish" /\ flast.result = "Ok") =>
          IF fh.wrote
          THEN fh.published = 0 /\ fr.writes_since_save = 0 /\ FileHoldsAll
          ELSE 1 <= fh.published /\ fh.published <= fr.auto_save_threshold
    /\ (fr.alive /\ ~Saving) => fr.writes_since_save >= fh.published

C19_Witness ==
    /\ flast.op = "publish" /\ flast.result = "Ok"
    /\ fr.auto_save_threshold = 2
    /\ fh.wrote
    /\ count(mem) = 3
    /\ FileHoldsAll

-----------------------------------------------------------------------------
(* Hashes and the KEM: a digest, a shared secret, a seed are numbers below   *)
(* HashSpace; a key or ciphertext is Bytes(len, content)                    *)

Good(v) == [result |-> "Ok", value |-> v]
Bad(e) == [result |-> e]

domain_code(domain) ==
    CASE domain = DOMAIN_VIEW_TAG -> 1
      [] domain = DOMAIN_ETH_KEY -> 2
      [] OTHER -> 3

RECURSIVE absorb(_, _)
absorb(h, input) ==
    IF input = <<>> THEN h
    ELSE absorb((h * 7 + Head(input) + 1) % HashSpace, Tail(input))

\* shake256(domain, input, n): the domain is absorbed before the input
shake256(domain, input) == absorb(domain_code(domain), input)

\* keccak256
keccak256(x) == (5 * x + 3) % HashSpace

\* hash[0], the first byte of a digest
first_byte(h) == h % 2

\* compute_view_tag
compute_view_tag(shared_secret) == first_byte(shake256(DOMAIN_VIEW_TAG, <<shared_secret>>))

KeyIds == {1, 2}

\* the key pair with identity k
public_key(k) == Bytes(KYBER_PUBLIC_KEY_SIZE, k)
secret_key(k) == Bytes(KYBER_SECRET_KEY_SIZE, k)

\* the shared secret that the public key k and the randomness r encapsulate
kem_secret(k, r) == (k * 5 + r * 3) % HashSpace

\* kyber768::encapsulate with randomness r: the ciphertext names k and r
kyber768_encapsulate(pk, r) ==
    [ct |-> Bytes(KYBER_CIPHERTEXT_SIZE, 10 * pk.content + r),
     ss |-> kem_secret(pk.content, r)]

\* a faulty kyber768::decapsulate: every ciphertext is rejected
kyber768_decapsulate_reject(ct, sk) == (ct.content * 3 + sk.content * 11 + 7) % HashSpace

\* kyber768::decapsulate: the encapsulated secret under the matching secret
\* key, and a pseudo-random value (implicit rejection) under any other
kyber768_decapsulate(ct, sk) ==
    IF ct.content \div 10 = sk.content
    THEN kem_secret(sk.content, ct.content % 10)
    ELSE kyber768_decapsulate_reject(ct, sk)

\* encapsulate
encapsulate(public_key_, r) ==
    IF public_key_.len # KYBER_PUBLIC_KEY_SIZE THEN Bad("EncapsulationError")
    ELSE Good(kyber768_encapsulate(public_key_, r))

\* KyberCiphertext::from_bytes
KyberCiphertext_from_bytes(bytes) ==
    IF bytes.len # KYBER_CIPHERTEXT_SIZE THEN Bad("InvalidCiphertextSize") ELSE Good(bytes)

\* KyberSecretKey::from_bytes
KyberSecretKey_from_bytes(bytes) ==
    IF bytes.len # KYBER_SECRET_KEY_SIZE THEN Bad("InvalidKeySize") ELSE Good(bytes)

\* decapsulate
decapsulate(ciphertext, secret_key_) ==
    IF ciphertext.len # KYBER_CIPHERTEXT_SIZE \/ secret_key_.len # KYBER_SECRET_KEY_SIZE
    THEN Bad("DecapsulationError")
    ELSE Good(kyber768_decapsulate(ciphertext, secret_key_))

-----------------------------------------------------------------------------
(* Derivation of the stealth address and keys *)

\* SigningKey::from_slice(seed).is_ok(): a scalar is valid when it is not
\* zero and is below the order of the curve
CurveOrder == HashSpace - 3
is_valid_scalar(seed) == seed # 0 /\ seed < CurveOrder

\* derive_eth_key_seed, the loop of lines 147-153
RECURSIVE rehash_until_valid(_)
rehash_until_valid(seed) ==
    IF is_valid_scalar(seed) THEN seed ELSE rehash_until_valid(keccak256(seed))

\* derive_eth_key_seed
derive_eth_key_seed(shared_secret, spending_pk) ==
    Good(rehash_until_valid(shake256(DOMAIN_ETH_KEY, <<shared_secret, spending_pk.content>>)))

\* the uncompressed public point of a signing key
verifying_key(seed) == (seed * 3) % HashSpace

\* derive_eth_address_from_seed
derive_eth_address_from_seed(seed) ==
    IF ~is_valid_scalar(seed) THEN Bad("InvalidStealthAddress")
    ELSE Good([eth |-> keccak256(verifying_key(seed))])

\* derive_stealth_keys; spending_sk is unused
derive_stealth_keys(spending_pk, spending_sk, shared_secret) ==
    LET seed == derive_eth_key_seed(shared_secret, spending_pk) IN
    IF seed.result # "Ok" THEN seed
    ELSE LET address == derive_eth_address_from_seed(seed.value) IN
         IF address.result # "Ok" THEN address
         ELSE Good([public_key |-> verifying_key(seed.value),
                    private_key |-> seed.value,
                    address |-> address.value])

\* derive_stealth_address
derive_stealth_address(spending_pk, shared_secret) ==
    LET seed == derive_eth_key_seed(shared_secret, spending_pk) IN
    IF seed.result # "Ok" THEN seed ELSE derive_eth_address_from_seed(seed.value)

-----------------------------------------------------------------------------
(* The sender: create_stealth_payment *)

MetaAddress(version, spending_pk, viewing_pk) ==
    [version |-> version, spending_pk |-> spending_pk, viewing_pk |-> viewing_pk]

\* MetaAddress::validate
MetaAddress_validate(m) ==
    IF m.version = 0 THEN "version cannot be 0"
    ELSE IF all_zero(m.spending_pk) THEN "spending key is all zeros"
    ELSE IF all_zero(m.viewing_pk) THEN "viewing key is all zeros"
    ELSE "Ok"

\* Announcement::new
Announcement_new(ephemeral_key, view_tag, clock) ==
    Announcement(0, ephemeral_key, view_tag, clock, None, None)

\* create_stealth_payment, with the randomness r of encapsulate
create_stealth_payment(meta_address, r, clock) ==
    IF MetaAddress_validate(meta_address) # "Ok" THEN Bad("InvalidMetaAddress")
    ELSE LET e == encapsulate(meta_address.viewing_pk, r) IN
         IF e.result # "Ok" THEN e
         ELSE LET view_tag == compute_view_tag(e.value.ss)
                  stealth_address ==
                      derive_stealth_address(meta_address.spending_pk, e.value.ss)
              IN IF stealth_address.result # "Ok" THEN stealth_address
                 ELSE Good([stealth_address |-> stealth_address.value,
                            announcement |-> Announcement_new(e.value.ct, view_tag, clock),
                            meta |-> meta_address])

\* the meta-addresses payments are made to: every pair of keys, and the
\* invalid ones (version 0, an all-zero key)
MetaAddresses ==
    { MetaAddress(PROTOCOL_VERSION, public_key(s), public_key(v)) : s \in KeyIds, v \in KeyIds }
    \cup { MetaAddress(0, public_key(1), public_key(1)),
           MetaAddress(PROTOCOL_VERSION, public_key(0), public_key(1)),
           MetaAddress(PROTOCOL_VERSION, public_key(1), public_key(0)) }

ScanIdle == scan.pc \in {"idle", "done"}

\* what the memory of the shared secret of create_stealth_payment holds when
\* the call returns: encapsulate copies the secret into it (kyber.rs, lines
\* 154-155) and no later statement of the call writes to it
sender_ss_memory(meta_address, r) ==
    IF MetaAddress_validate(meta_address) # "Ok" THEN "unused"
    ELSE IF encapsulate(meta_address.viewing_pk, r).result # "Ok" THEN "unused"
    ELSE "secret"

CreatePayment(m, r) ==
    /\ ScanIdle /\ nOps < MaxStealthOps
    /\ nOps' = nOps + 1
    /\ pay' = create_stealth_payment(m, r, now) @@ [ss_memory |-> sender_ss_memory(m, r)]
    /\ UNCHANGED <<mem, th, now, publog, errlog, path, fs, fr, fcall, flast, nCrash, fh, scan, kd, sc, sq, cd, ca, cf>>

-----------------------------------------------------------------------------
(* The recipient: scan_announcement and SpecterWallet::try_discover, split   *)
(* at every call they make; trace records the calls made, in order, and     *)
(* ss_memory what the memory of the shared secret holds: "unused" before    *)
(* decapsulate wrote to it, "secret" once it holds the secret, "zeros" once *)
(* it was overwritten with zeros                                            *)

\* the recipients' wallets: a viewing and a spending key pair each
Wallets == [viewing : KeyIds, spending : KeyIds]

\* the announcements scanned: the one of the last payment, that one with
\* another tag or a truncated key, and one with a foreign ciphertext
ScanInputs ==
    (IF pay.result = "Ok"
     THEN { pay.value.announcement,
            [pay.value.announcement EXCEPT !.view_tag = 1 - @],
            [pay.value.announcement EXCEPT !.ephemeral_key.len = @ - 1] }
     ELSE {})
    \cup { Announcement(0, ValidKey, 0, now, None, None) }

\* what the call returns as: scan_announcement returns a ScanResult,
\* try_discover a Result<Option<StealthKeys>>
Returns(kind, value) ==
    [scan EXCEPT !.pc = "done", !.result = [kind |-> kind, value |-> value]]

discovered(op) == IF op = "scan_announcement" THEN "Discovered" ELSE "Some"
not_for_us(op) == IF op = "scan_announcement" THEN "NotForUs" ELSE "None"
failed(op) == IF op = "scan_announcement" THEN "DecapsulationFailed" ELSE "Err"

ScanStart(op, a, w) ==
    /\ ScanIdle /\ nOps < MaxStealthOps
    /\ nOps' = nOps + 1
    /\ scan' = [op |-> op,
                pc |-> IF op = "scan_announcement" THEN "validate" ELSE "ciphertext",
                announcement |-> a, wallet |-> w, shared_secret |-> 0,
                ss_memory |-> "unused",
                trace |-> <<>>, result |-> [kind |-> "none", value |-> 0],
                payment |-> pay]
    /\ UNCHANGED <<mem, th, now, publog, errlog, path, fs, fr, fcall, flast, nCrash, fh, pay, kd, sc, sq, cd, ca, cf>>

\* scan_announcement, lines 100-102
scan_validate ==
    /\ scan.pc = "validate"
    /\ scan' = IF validate(scan.announcement, now) # "Ok"
               THEN Returns(failed(scan.op), "InvalidAnnouncement")
               ELSE [scan EXCEPT !.pc = "ciphertext", !.trace = Append(@, "validate")]
    /\ UNCHANGED <<mem, th, now, publog, errlog, nOps, path, fs, fr, fcall, flast, nCrash, fh, pay, kd, sc, sq, cd, ca, cf>>

\* KyberCiphertext::from_bytes(ephemeral_key)
scan_ciphertext ==
    /\ scan.pc = "ciphertext"
    /\ LET ct == KyberCiphertext_from_bytes(scan.announcement.ephemeral_key) IN
       scan' = IF ct.result # "Ok" THEN Returns(failed(scan.op), ct.result)
               ELSE [scan EXCEPT
                        !.pc = IF scan.op = "scan_announcement" THEN "secret_key"
                               ELSE "decapsulate",
                        !.trace = Append(@, "ciphertext")]
    /\ UNCHANGED <<mem, th, now, publog, errlog, nOps, path, fs, fr, fcall, flast, nCrash, fh, pay, kd, sc, sq, cd, ca, cf>>

\* scan_announcement, lines 109-112: KyberSecretKey::from_bytes(viewing_sk)
scan_secret_key ==
    /\ scan.pc = "secret_key"
    /\ LET sk == KyberSecretKey_from_bytes(secret_key(scan.wallet.viewing)) IN
       scan' = IF sk.result # "Ok" THEN Returns(failed(scan.op), sk.result)
               ELSE [scan EXCEPT !.pc = "decapsulate", !.trace = Append(@, "secret_key")]
    /\ UNCHANGED <<mem, th, now, publog, errlog, nOps, path, fs, fr, fcall, flast, nCrash, fh, pay, kd, sc, sq, cd, ca, cf>>

\* decapsulate(&ciphertext, &viewing_secret)
scan_decapsulate ==
    /\ scan.pc = "decapsulate"
    /\ LET ss == decapsulate(scan.announcement.ephemeral_key,
                             secret_key(scan.wallet.viewing)) IN
       scan' = IF ss.result # "Ok" THEN Returns(failed(scan.op), ss.result)
               ELSE [scan EXCEPT !.pc = "compare", !.shared_secret = ss.value,
                                 !.ss_memory = "secret",
                                 !.trace = Append(@, "decapsulate")]
    /\ UNCHANGED <<mem, th, now, publog, errlog, nOps, path, fs, fr, fcall, flast, nCrash, fh, pay, kd, sc, sq, cd, ca, cf>>

\* a faulty after_compare: the keys are derived whatever the tags
after_compare_always_derive(computed_tag, expected_view_tag) == "derive"

\* the test of the computed tag against the announced one: where it leads
after_compare(computed_tag, expected_view_tag) ==
    IF computed_tag # expected_view_tag THEN "return" ELSE "derive"

\* compute_view_tag(&shared_secret) and the comparison
scan_compare ==
    /\ scan.pc = "compare"
    /\ LET computed_tag == compute_view_tag(scan.shared_secret)
           expected_view_tag == scan.announcement.view_tag
           compared == IF computed_tag = expected_view_tag THEN "tag_equal"
                       ELSE "tag_differs"
       IN scan' = IF after_compare(computed_tag, expected_view_tag) = "return"
                  THEN [Returns(not_for_us(scan.op), 0) EXCEPT
                            !.trace = Append(@, compared)]
                  ELSE [scan EXCEPT !.pc = "derive", !.trace = Append(@, compared)]
    /\ UNCHANGED <<mem, th, now, publog, errlog, nOps, path, fs, fr, fcall, flast, nCrash, fh, pay, kd, sc, sq, cd, ca, cf>>

\* derive_stealth_keys(spending_pk, spending_sk, &shared_secret)
scan_derive ==
    /\ scan.pc = "derive"
    /\ LET keys == derive_stealth_keys(public_key(scan.wallet.spending),
                                       secret_key(scan.wallet.spending),
                                       scan.shared_secret)
           derived == [scan EXCEPT !.trace = Append(@, "derive")]
       IN scan' = IF keys.result # "Ok"
                  THEN [derived EXCEPT !.pc = "done",
                            !.result = [kind |-> failed(scan.op), value |-> keys.result]]
                  ELSE [derived EXCEPT !.pc = "done",
                            !.result = [kind |-> discovered(scan.op), value |-> keys.value]]
    /\ UNCHANGED <<mem, th, now, publog, errlog, nOps, path, fs, fr, fcall, flast, nCrash, fh, pay, kd, sc, sq, cd, ca, cf>>

\* the clock advances between the calls
StealthTick ==
    /\ ScanIdle
    /\ now < StartTime + MaxTicks
    /\ now' = now + 1
    /\ UNCHANGED <<mem, th, publog, errlog, nOps, path, fs, fr, fcall, flast, nCrash, fh, pay, scan, kd, sc, sq, cd, ca, cf>>

StealthInit ==
    /\ FileUnused
    /\ ExtraUnused
    /\ mem = MemoryRegistry_new
    /\ th = [t \in Threads |-> Idle]
    /\ now = StartTime
    /\ publog = <<>>
    /\ errlog = {}
    /\ nOps = 0
    /\ pay = NoPayment
    /\ scan = NoScan
    /\ ScannerUnused

StealthNext ==
    \/ \E m \in MetaAddresses, r \in 0..MaxRand : CreatePayment(m, r)
    \/ \E op \in {"scan_announcement", "try_discover"}, a \in ScanInputs, w \in Wallets :
          ScanStart(op, a, w)
    \/ scan_validate
    \/ scan_ciphertext
    \/ scan_secret_key
    \/ scan_decapsulate
    \/ scan_compare
    \/ scan_derive
    \/ StealthTick

SpecStealth == StealthInit /\ [][StealthNext]_vars

-----------------------------------------------------------------------------
(* Properties of the stealth pipeline *)

\* the call scanned the announcement of a payment with the keys of the
\* meta-address the payment was made to
ScansOwnPayment ==
    /\ scan.op # "none"
    /\ scan.payment.result = "Ok"
    /\ scan.announcement = scan.payment.value.announcement
    /\ public_key(scan.wallet.viewing) = scan.payment.value.meta.viewing_pk
    /\ public_key(scan.wallet.spending) = scan.payment.value.meta.spending_pk

\* C1: scanning the announcement of create_stealth_payment(m) with m's viewing
\* secret key and spending public key returns Discovered, and the discovered
\* address is the payment's stealth address.
C1_RoundTrip ==
    (ScansOwnPayment /\ scan.pc = "done") =>
        /\ scan.result.kind = discovered(scan.op)
        /\ scan.result.value.address = scan.payment.value.stealth_address

C1_Witness ==
    /\ ScansOwnPayment /\ scan.pc = "done"
    /\ scan.op = "scan_announcement"
    /\ scan.result.kind = "Discovered"
    /\ scan.wallet.viewing # scan.wallet.spending
    /\ now > scan.announcement.timestamp

Before(trace, x, i) == \E j \in 1..(i - 1) : trace[j] = x

-----------------------------------------------------------------------------
(* derive_eth_key_seed called alone, its loop split at every iteration. The  *)
(* loop ends when a candidate is a valid scalar, so whether it ends depends  *)
(* on the values Keccak-256 takes on the invalid scalars: these are drawn    *)
(* from every possibility, and so is the first candidate (the SHAKE256       *)
(* output of line 145)                                                       *)

InvalidScalars == { x \in 0..(HashSpace - 1) : ~is_valid_scalar(x) }

\* keccak256 on the invalid scalars: each maps to an invalid scalar or to a
\* valid one
KeccakOnInvalid == [InvalidScalars -> InvalidScalars \cup {1}]

\* the number of re-hashes after which the loop is to give up
RehashCap == 8

SeedInit ==
    /\ FileUnused
    /\ ExtraUnused
    /\ mem = MemoryRegistry_new
    /\ th = [t \in Threads |-> Idle]
    /\ now = StartTime
    /\ publog = <<>>
    /\ errlog = {}
    /\ nOps = 0
    /\ pay = NoPayment
    /\ scan = NoScan
    /\ sc = NoScanner
    /\ \E h \in KeccakOnInvalid, raw \in InvalidScalars \cup {1, 2} :
          kd = [pc |-> "loop", keccak |-> h, seed |-> raw, rehashes |-> 0,
                result |-> Bad("none")]

\* derive_eth_key_seed, lines 148-150: a valid candidate is returned
seed_check ==
    /\ kd.pc = "loop"
    /\ is_valid_scalar(kd.seed)
    /\ kd' = [kd EXCEPT !.pc = "done", !.result = Good(kd.seed)]
    /\ UNCHANGED <<mem, th, now, publog, errlog, nOps, fileVars, pay, scan, sc, extraVars>>

\* derive_eth_key_seed, lines 151-152: an invalid candidate is hashed again
seed_rehash ==
    /\ kd.pc = "loop"
    /\ ~is_valid_scalar(kd.seed)
    /\ kd.rehashes < MaxRehash
    /\ kd' = [kd EXCEPT !.seed = kd.keccak[kd.seed], !.rehashes = @ + 1]
    /\ UNCHANGED <<mem, th, now, publog, errlog, nOps, fileVars, pay, scan, sc, extraVars>>

SeedNext ==
    \/ seed_check
    \/ seed_rehash

SpecSeed == SeedInit /\ [][SeedNext]_vars

\* C12: derive_eth_key_seed re-hashes its candidate at most 8 times; after
\* the eighth re-hash it returns, with a valid non-zero scalar or with
\* VerificationFailed, and every seed it returns is a valid non-zero scalar.
C12_SeedWithinEightRehashes ==
    kd.pc # "idle" =>
        /\ kd.rehashes <= RehashCap
        /\ (kd.rehashes = RehashCap /\ ~is_valid_scalar(kd.seed))
              => (kd.pc = "done" /\ kd.result = Bad("VerificationFailed"))
        /\ (kd.pc = "done" /\ kd.result.result = "Ok") => is_valid_scalar(kd.result.value)

-----------------------------------------------------------------------------
(* The Scanner (specter-scanner/src/lib.rs). A scan is split at every call  *)
(* to the registry, where the caller can drop (cancel) it, and at every     *)
(* announcement of a bucket. The registry is a &dyn AnnouncementRegistry:   *)
(* its calls may return an error. It does not change while a Scanner is     *)
(* used. The 256 view tags are the tags of Tags.                            *)

ScanResult(kind, value) == [kind |-> kind, value |-> value]

\* scan_announcement (discovery.rs, lines 94-128) as one call
scan_announcement(announcement, viewing_sk, spending_pk, spending_sk, clock) ==
    IF validate(announcement, clock) # "Ok"
    THEN ScanResult("DecapsulationFailed", "InvalidAnnouncement")
    ELSE LET ct == KyberCiphertext_from_bytes(announcement.ephemeral_key)
             sk == KyberSecretKey_from_bytes(viewing_sk)
         IN IF ct.result # "Ok" THEN ScanResult("DecapsulationFailed", ct.result)
            ELSE IF sk.result # "Ok" THEN ScanResult("DecapsulationFailed", sk.result)
            ELSE LET ss == decapsulate(ct.value, sk.value) IN
                 IF ss.result # "Ok" THEN ScanResult("DecapsulationFailed", ss.result)
                 ELSE IF compute_view_tag(ss.value) # announcement.view_tag
                 THEN ScanResult("NotForUs", 0)
                 ELSE LET keys == derive_stealth_keys(spending_pk, spending_sk, ss.value) IN
                      IF keys.result # "Ok"
                      THEN ScanResult("DecapsulationFailed", keys.result)
                      ELSE ScanResult("Discovered", keys.value)

\* ScanStats::new; duration_ms, a measurement of wall time, is left out
ScanStats_new == [total_scanned |-> 0, view_tag_matches |-> 0, discoveries |-> 0, errors |-> 0]

\* a faulty ScanStats::record: a failure is not counted as an error
record_without_errors(stats, result) ==
    IF result.kind = "Discovered"
    THEN [stats EXCEPT !.total_scanned = @ + 1, !.view_tag_matches = @ + 1,
                       !.discoveries = @ + 1]
    ELSE [stats EXCEPT !.total_scanned = @ + 1]

\* ScanStats::record
record(stats, result) ==
    IF result.kind = "DecapsulationFailed"
    THEN [stats EXCEPT !.total_scanned = @ + 1, !.errors = @ + 1]
    ELSE record_without_errors(stats, result)

\* ScanPosition::new
ScanPosition_new == [last_id |-> 0, last_timestamp |-> 0, total_scanned |-> 0,
                     total_discoveries |-> 0]

\* ScanPosition::update
ScanPosition_update(position, announcement, was_discovered) ==
    [position EXCEPT !.last_id = announcement.id,
                     !.last_timestamp = announcement.timestamp,
                     !.total_scanned = @ + 1,
                     !.total_discoveries = IF was_discovered THEN @ + 1 ELSE @]

\* ScanProgress::update: what a progress callback is given; rate,
\* eta_seconds and percent, computed from these and from wall time, are left out
ScanProgress(total, scanned, discoveries) ==
    [total |-> total, scanned |-> scanned, discoveries |-> discoveries]

\* ScannerConfig; batch_size is read by no scan
ScannerConfig(stop_on_first, from_timestamp, to_timestamp, view_tag_filter) ==
    [stop_on_first |-> stop_on_first, from_timestamp |-> from_timestamp,
     to_timestamp |-> to_timestamp, view_tag_filter |-> view_tag_filter]

\* ScannerConfig::default
ScannerConfig_default == ScannerConfig(FALSE, None, None, None)

\* (0..=255).collect(): every tag, in ascending order
AllTags == <<0, 1>>

\* lines 263-266: the tags a scan goes through, in this order
view_tags_of(config) ==
    IF is_some(config.view_tag_filter) THEN unwrap(config.view_tag_filter) ELSE AllTags

\* a faulty time filter: both bounds exclusive
skipped_by_time_exclusive(config, announcement) ==
    \/ is_some(config.from_timestamp)
          /\ announcement.timestamp <= unwrap(config.from_timestamp)
    \/ is_some(config.to_timestamp)
          /\ announcement.timestamp >= unwrap(config.to_timestamp)

\* lines 278-287 and 359-368: the time filter skips the announcement
skipped_by_time(config, announcement) ==
    \/ is_some(config.from_timestamp)
          /\ announcement.timestamp < unwrap(config.from_timestamp)
    \/ is_some(config.to_timestamp)
          /\ announcement.timestamp > unwrap(config.to_timestamp)

\* a faulty stop test: the scan goes on after a discovery
stops_never(op, config, result, discoveries) == FALSE

\* lines 305-311 and 391-393: the scan returns after this announcement
stops_after(op, config, result, discoveries) ==
    IF op = "scan_with_progress"
    THEN config.stop_on_first /\ discoveries # <<>>
    ELSE result.kind = "Discovered" /\ config.stop_on_first

\* MemoryRegistry::get_by_view_tag called alone (memory.rs, lines 218-233):
\* the announcements of the bucket, in the order of the index
get_by_view_tag_vec(r, tag) ==
    LET ids == SelectSeq(Bucket(r, tag), LAMBDA id : id \in DOMAIN r.announcements)
    IN [i \in 1..Len(ids) |-> r.announcements[ids[i]]]

\* Scanner::new. Beside the fields of the Scanner and the local variables of
\* the scan in progress, the record keeps a history: log, the announcements
\* handed to scan_announcement by the call, in order; stats0 and position0,
\* the statistics and position when the call started; last, the announcement
\* scanned most recently since the last reset_position
Scanner_new(viewing_sk, spending_pk, spending_sk) ==
    [viewing_sk |-> viewing_sk, spending_pk |-> spending_pk, spending_sk |-> spending_sk,
     position |-> ScanPosition_new, stats |-> ScanStats_new,
     op |-> "none", pc |-> "idle", config |-> ScannerConfig_default, total |-> 0,
     view_tags |-> <<>>, announcements |-> <<>>, discoveries |-> <<>>, scanned |-> 0,
     callbacks |-> <<>>, result |-> "none", registry_error |-> FALSE,
     log |-> <<>>, stats0 |-> ScanStats_new, position0 |-> ScanPosition_new,
     last |-> None]

\* the announcement of a payment made at time clock to the viewing key v
PaymentTo(v, r, clock) ==
    create_stealth_payment(MetaAddress(PROTOCOL_VERSION, public_key(1), public_key(v)),
                           r, clock).value.announcement

\* the announcements published to the registry: two payments to the viewing
\* key 1 and two to other viewing keys, made at two times
ScanPool ==
    { PaymentTo(1, 0, StartTime - 1), PaymentTo(1, 1, StartTime),
      PaymentTo(2, 0, StartTime - 1), PaymentTo(3, 0, StartTime) }

RECURSIVE publish_list(_, _, _)
publish_list(r, list, clock) ==
    IF list = <<>> THEN r
    ELSE publish_list(publish_seq(r, Head(list), clock).reg, Tail(list), clock)

\* the registries scanned: up to MaxScanAnns different announcements of the
\* pool, published in any order
ScanRegistries ==
    { publish_list(MemoryRegistry_new, list, StartTime) :
        list \in { l \in UNION { [1..n -> ScanPool] : n \in 0..MaxScanAnns } :
                      \A i, j \in 1..Len(l) : i # j => l[i] # l[j] } }

\* the scanners: the wallet with the keys 1, and one whose viewing secret key
\* is a byte short
Scanners ==
    { Scanner_new(secret_key(1), public_key(1), secret_key(1)),
      Scanner_new(Bytes(KYBER_SECRET_KEY_SIZE - 1, 1), public_key(1), secret_key(1)) }

\* the configurations scans are called with
ScannerConfigs ==
    { ScannerConfig(s, f, t, v) :
        s \in BOOLEAN,
        f \in {None, Some(StartTime)},
        t \in {None, Some(StartTime - 1)},
        v \in {None, Some(<<1>>), Some(<<1, 0>>), Some(<<0, 0>>)} }

ScannerIdle == sc.pc \in {"idle", "done"} /\ nOps < MaxScanCalls

\* the local variables of a scan when it starts
StartScan(op, config, pc) ==
    [sc EXCEPT !.op = op, !.pc = pc, !.config = config, !.total = 0,
               !.view_tags = view_tags_of(config), !.announcements = <<>>,
               !.discoveries = <<>>, !.scanned = 0, !.callbacks = <<>>,
               !.result = "none", !.registry_error = FALSE, !.log = <<>>,
               !.stats0 = sc.stats, !.position0 = sc.position]

\* a call to the registry returned an error: `?` returns it to the caller
RegistryFails ==
    sc' = [sc EXCEPT !.pc = "done", !.result = "RegistryError", !.registry_error = TRUE]

\* Scanner::reset_position
reset_position ==
    /\ ScannerIdle
    /\ nOps' = nOps + 1
    /\ sc' = [StartScan("reset_position", ScannerConfig_default, "done") EXCEPT
                 !.position = ScanPosition_new, !.stats = ScanStats_new,
                 !.stats0 = ScanStats_new, !.position0 = ScanPosition_new,
                 !.view_tags = <<>>, !.last = None]
    /\ UNCHANGED <<mem, th, now, publog, errlog, fileVars, pay, scan, kd, extraVars>>

\* Scanner::scan_all: scan_with_config with the default configuration
scan_all ==
    /\ ScannerIdle
    /\ nOps' = nOps + 1
    /\ sc' = StartScan("scan_all", ScannerConfig_default, "bucket")
    /\ UNCHANGED <<mem, th, now, publog, errlog, fileVars, pay, scan, kd, extraVars>>

\* Scanner::scan_with_config, lines 259-268
scan_with_config(config) ==
    /\ ScannerIdle
    /\ nOps' = nOps + 1
    /\ sc' = StartScan("scan_with_config", config, "bucket")
    /\ UNCHANGED <<mem, th, now, publog, errlog, fileVars, pay, scan, kd, extraVars>>

\* Scanner::scan_with_progress, lines 339-340
scan_with_progress(config) ==
    /\ ScannerIdle
    /\ nOps' = nOps + 1
    /\ sc' = StartScan("scan_with_progress", config, "count")
    /\ UNCHANGED <<mem, th, now, publog, errlog, fileVars, pay, scan, kd, extraVars>>

\* scan_with_progress, lines 343-344: registry.count().await?
progress_count ==
    /\ sc.pc = "count"
    /\ \/ sc' = [sc EXCEPT !.total = count(mem), !.pc = "bucket"]
       \/ RegistryFails
    /\ UNCHANGED <<mem, th, now, publog, errlog, nOps, fileVars, pay, scan, kd, extraVars>>

\* lines 270-272 and 354-355: registry.get_by_view_tag(view_tag).await? for
\* the next tag
scan_bucket ==
    /\ sc.pc = "bucket"
    /\ sc.view_tags # <<>>
    /\ \/ LET announcements == get_by_view_tag_vec(mem, Head(sc.view_tags)) IN
          sc' = [sc EXCEPT !.view_tags = Tail(@), !.announcements = announcements,
                           !.pc = IF announcements = <<>> THEN "bucket"
                                  ELSE "announcement"]
       \/ RegistryFails
    /\ UNCHANGED <<mem, th, now, publog, errlog, nOps, fileVars, pay, scan, kd, extraVars>>

\* where a scan goes after an announcement of a bucket
AfterAnnouncement(rest) == IF rest = <<>> THEN "bucket" ELSE "announcement"

\* scan_with_config, lines 276-313: one announcement of the bucket
config_announcement ==
    /\ sc.pc = "announcement"
    /\ sc.op \in {"scan_all", "scan_with_config"}
    /\ LET announcement == Head(sc.announcements)
           rest == Tail(sc.announcements)
       IN IF skipped_by_time(sc.config, announcement)
          THEN sc' = [sc EXCEPT !.announcements = rest, !.pc = AfterAnnouncement(rest)]
          ELSE LET result == scan_announcement(announcement, sc.viewing_sk,
                                               sc.spending_pk, sc.spending_sk, now)
                   is_discovered == result.kind = "Discovered"
                   discoveries == IF is_discovered THEN Append(sc.discoveries, result.value)
                                  ELSE sc.discoveries
                   stop == stops_after(sc.op, sc.config, result, discoveries)
               IN sc' = [sc EXCEPT
                            !.stats = record(@, result),
                            !.position = ScanPosition_update(@, announcement, is_discovered),
                            !.discoveries = discoveries,
                            !.log = Append(@, [id |-> announcement.id, kind |-> result.kind]),
                            !.last = Some(announcement),
                            !.announcements = rest,
                            !.result = IF stop THEN "Ok" ELSE @,
                            !.pc = IF stop THEN "done" ELSE AfterAnnouncement(rest)]
    /\ UNCHANGED <<mem, th, now, publog, errlog, nOps, fileVars, pay, scan, kd, extraVars>>

\* scan_with_config, lines 316-328: every tag was gone through
config_complete ==
    /\ sc.pc = "bucket"
    /\ sc.view_tags = <<>>
    /\ sc.op \in {"scan_all", "scan_with_config"}
    /\ sc' = [sc EXCEPT !.pc = "done", !.result = "Ok"]
    /\ UNCHANGED <<mem, th, now, publog, errlog, nOps, fileVars, pay, scan, kd, extraVars>>

\* scan_with_progress, lines 357-394: one announcement of the bucket
progress_announcement ==
    /\ sc.pc = "announcement"
    /\ sc.op = "scan_with_progress"
    /\ LET announcement == Head(sc.announcements)
           rest == Tail(sc.announcements)
       IN IF skipped_by_time(sc.config, announcement)
          THEN sc' = [sc EXCEPT !.announcements = rest, !.pc = AfterAnnouncement(rest)]
          ELSE LET result == scan_announcement(announcement, sc.viewing_sk,
                                               sc.spending_pk, sc.spending_sk, now)
                   scanned == sc.scanned + 1
                   discoveries == IF result.kind = "Discovered"
                                  THEN Append(sc.discoveries, result.value)
                                  ELSE sc.discoveries
                   stop == stops_after(sc.op, sc.config, result, discoveries)
               IN sc' = [sc EXCEPT
                            !.stats = record(@, result),
                            !.scanned = scanned,
                            !.discoveries = discoveries,
                            !.callbacks =
                                IF scanned % PROGRESS_INTERVAL = 0
                                THEN Append(@, ScanProgress(sc.total, scanned,
                                                            Len(discoveries)))
                                ELSE @,
                            !.log = Append(@, [id |-> announcement.id, kind |-> result.kind]),
                            !.last = Some(announcement),
                            !.announcements = rest,
                            !.result = IF stop THEN "Ok" ELSE @,
                            !.pc = IF stop THEN "done" ELSE AfterAnnouncement(rest)]
    /\ UNCHANGED <<mem, th, now, publog, errlog, nOps, fileVars, pay, scan, kd, extraVars>>

\* scan_with_progress, lines 397-401: the final progress update
progress_complete ==
    /\ sc.pc = "bucket"
    /\ sc.view_tags = <<>>
    /\ sc.op = "scan_with_progress"
    /\ sc' = [sc EXCEPT
                 !.callbacks = Append(@, ScanProgress(sc.total, sc.scanned,
                                                      Len(sc.discoveries))),
                 !.pc = "done", !.result = "Ok"]
    /\ UNCHANGED <<mem, th, now, publog, errlog, nOps, fileVars, pay, scan, kd, extraVars>>

\* Scanner::scan_one
scan_one(announcement) ==
    /\ ScannerIdle
    /\ nOps' = nOps + 1
    /\ LET result == scan_announcement(announcement, sc.viewing_sk, sc.spending_pk,
                                       sc.spending_sk, now)
       IN sc' = [StartScan("scan_one", ScannerConfig_default, "done") EXCEPT
                    !.stats = record(@, result),
                    !.view_tags = <<>>,
                    !.log = <<[id |-> announcement.id, kind |-> result.kind]>>,
                    !.last = Some(announcement),
                    !.result = result.kind]
    /\ UNCHANGED <<mem, th, now, publog, errlog, fileVars, pay, scan, kd, extraVars>>

ScanInit ==
    /\ FileUnused
    /\ ExtraUnused
    /\ mem \in ScanRegistries
    /\ th = [t \in Threads |-> Idle]
    /\ now = StartTime
    /\ publog = <<>>
    /\ errlog = {}
    /\ nOps = 0
    /\ pay = NoPayment
    /\ scan = NoScan
    /\ kd = NoSeed
    /\ sc \in Scanners

ScanNext ==
    \/ reset_position
    \/ scan_all
    \/ \E config \in ScannerConfigs : scan_with_config(config)
    \/ \E config \in ScannerConfigs : scan_with_progress(config)
    \/ \E announcement \in ScanPool : scan_one(announcement)
    \/ progress_count
    \/ scan_bucket
    \/ config_announcement
    \/ config_complete
    \/ progress_announcement
    \/ progress_complete

SpecScan == ScanInit /\ [][ScanNext]_vars

-----------------------------------------------------------------------------
(* Properties of the Scanner *)

\* a scan of the registry is in progress or has returned last
InScan == sc.op \in {"scan_all", "scan_with_config", "scan_with_progress"}

\* the announcements of the registry
Registered == { mem.announcements[id] : id \in DOMAIN mem.announcements }

\* the announcement is within the filters of the configuration: its tag is in
\* view_tag_filter if that is set, and from_timestamp <= timestamp <=
\* to_timestamp for the bounds that are set
Matches(config, a) ==
    /\ is_some(config.view_tag_filter)
          => a.view_tag \in SeqToSet(unwrap(config.view_tag_filter))
    /\ is_some(config.from_timestamp) => unwrap(config.from_timestamp) <= a.timestamp
    /\ is_some(config.to_timestamp) => a.timestamp <= unwrap(config.to_timestamp)

\* the ids of the announcements the call has scanned
Scanned == { sc.log[i].id : i \in 1..Len(sc.log) }

\* how many of the announcements the call scanned had this result
Results(kind) == Cardinality({ i \in 1..Len(sc.log) : sc.log[i].kind = kind })

\* the scan returned Ok after going through every tag
Completed == sc.pc = "done" /\ sc.result = "Ok"
                /\ ~(sc.config.stop_on_first /\ sc.discoveries # <<>>)

\* C13: in a scan, every announcement whose scan failed (decapsulation or
\* derivation) added one to the error count and no discovery, and the scan
\* went on: a scan that completes has scanned every announcement within its
\* filters; an error of a registry call ends the scan and is its result.
C13_FailureCountedScanGoesOn ==
    InScan =>
        /\ sc.stats.errors = sc.stats0.errors + Results("DecapsulationFailed")
        /\ Len(sc.discoveries) = Results("Discovered")
        /\ sc.stats.discoveries = sc.stats0.discoveries + Results("Discovered")
        /\ Completed => \A a \in Registered : Matches(sc.config, a) => a.id \in Scanned
        /\ sc.registry_error <=> (sc.pc = "done" /\ sc.result = "RegistryError")

C13_Witness ==
    /\ sc.op = "scan_with_config" /\ Completed
    /\ Len(sc.log) = 2
    /\ sc.log[1].kind = "DecapsulationFailed"
    /\ sc.stats.errors = 2
    /\ sc.discoveries = <<>>

\* C14: between two calls, and at every call to the registry inside a scan
\* (where the scan can be cancelled), the position agrees with the
\* statistics: the same number scanned, the same number of discoveries, and
\* last_id and last_timestamp those of the announcement scanned most recently.
C14_PositionAgreesWithStats ==
    sc.pc \in {"idle", "count", "bucket", "done"} =>
        /\ sc.position.total_scanned = sc.stats.total_scanned
        /\ sc.position.total_discoveries = sc.stats.discoveries
        /\ is_some(sc.last) =>
              /\ sc.position.last_id = unwrap(sc.last).id
              /\ sc.position.last_timestamp = unwrap(sc.last).timestamp

\* C15: during and after a scan by a Scanner whose position was new, every
\* announcement of the registry within the filters whose id is at most
\* position.last_id has been scanned.
C15_NothingSkippedBelowLastId ==
    (InScan /\ sc.position0 = ScanPosition_new) =>
        \A a \in Registered :
            (Matches(sc.config, a) /\ a.id <= sc.position.last_id) => a.id \in Scanned

\* C16: a scan_with_progress that returned Ok called the progress callback
\* once for every PROGRESS_INTERVAL announcements scanned and once more at its
\* end, and the last call reports the number scanned by the call and the
\* number of discoveries returned.
C16_FinalProgressCallback ==
    (sc.op = "scan_with_progress" /\ sc.pc = "done" /\ sc.result = "Ok") =>
        /\ Len(sc.callbacks) = Len(sc.log) \div PROGRESS_INTERVAL + 1
        /\ sc.callbacks[Len(sc.callbacks)].scanned = Len(sc.log)
        /\ sc.callbacks[Len(sc.callbacks)].discoveries = Len(sc.discoveries)

\* C17: a scan scans only announcements of the registry that are within its
\* filters, a scan that completes has scanned exactly those, and the
\* statistics and the position count the announcements scanned and no other.
C17_ScansExactlyTheFiltered ==
    InScan =>
        /\ \A id \in Scanned : \E a \in Registered : a.id = id /\ Matches(sc.config, a)
        /\ Completed => Scanned = { a.id : a \in { b \in Registered : Matches(sc.config, b) } }
        /\ sc.stats.total_scanned = sc.stats0.total_scanned + Len(sc.log)
        /\ sc.op # "scan_with_progress"
              => sc.position.total_scanned = sc.position0.total_scanned + Len(sc.log)

C17_Witness ==
    /\ sc.op = "scan_with_config" /\ Completed
    /\ sc.config.from_timestamp = Some(StartTime)
    /\ sc.config.view_tag_filter = Some(<<1, 0>>)
    /\ count(mem) = 2
    /\ \E a \in Registered : a.timestamp < StartTime
    /\ \E a \in Registered : a.timestamp = StartTime /\ Scanned = {a.id}
    /\ sc.stats.total_scanned = 1

\* the scanner's scan of the announcement returns Discovered: its view tag is
\* the tag of the secret the scanner's viewing key decapsulates
ScansAsDiscovered(a) ==
    scan_announcement(a, sc.viewing_sk, sc.spending_pk, sc.spending_sk, now).kind
        = "Discovered"

\* the announcement is that of a payment to the scanner's viewing key
AddressedToWallet(a) == sc.viewing_sk = secret_key(a.ephemeral_key.content \div 10)

\* C18 as stated: with stop_on_first, a scan that returned Ok holds one
\* discovery if an announcement within the filters is addressed to the wallet,
\* and none otherwise.
C18_OneDiscoveryIffAddressed ==
    (InScan /\ sc.config.stop_on_first /\ sc.pc = "done" /\ sc.result = "Ok") =>
        Len(sc.discoveries) =
            IF \E a \in Registered : Matches(sc.config, a) /\ AddressedToWallet(a)
            THEN 1 ELSE 0

\* C18: with stop_on_first, a scan that returned Ok holds one discovery if
\* the scan of an announcement within the filters returns Discovered (a
\* payment to the wallet, or another announcement whose view tag collides),
\* and none otherwise; the discovery is of the last announcement scanned.
C18_StopsAtFirstDiscovered ==
    (InScan /\ sc.config.stop_on_first /\ sc.pc = "done" /\ sc.result = "Ok") =>
        /\ Len(sc.discoveries) =
              IF \E a \in Registered : Matches(sc.config, a) /\ ScansAsDiscovered(a)
              THEN 1 ELSE 0
        /\ \A i \in 1..Len(sc.log) : sc.log[i].kind = "Discovered" <=> i = Len(sc.log)
                                                        /\ sc.discoveries # <<>>

C18_Witness ==
    /\ sc.op = "scan_with_progress" /\ sc.config.stop_on_first
    /\ sc.pc = "done" /\ sc.result = "Ok"
    /\ Len(sc.discoveries) = 1
    /\ Len(sc.log) = 1
    /\ \E a \in Registered : Matches(sc.config, a) /\ a.id \notin Scanned

\* C30: within one scan no announcement is scanned twice, whatever the
\* view_tag_filter (a list may name a tag more than once): no two results of
\* the call, and so no two discoveries, are of the same announcement id, the
\* call scans no more announcements than the registry holds, and every
\* progress callback reports scanned <= total.
C30_ScannedAtMostOnce ==
    InScan =>
        /\ \A i, j \in 1..Len(sc.log) : sc.log[i].id = sc.log[j].id => i = j
        /\ Len(sc.log) <= count(mem)
        /\ \A i \in 1..Len(sc.callbacks) :
              sc.callbacks[i].scanned <= sc.callbacks[i].total

-----------------------------------------------------------------------------
(* Further properties of the stealth pipeline *)

\* C11: when create_stealth_payment, scan_announcement or try_discover has
\* returned (success, NotForUs or error), the memory that held the KEM shared
\* secret no longer holds it: it was overwritten with zeros.
C11_SecretZeroedAtReturn ==
    /\ pay.result # "none" => pay.ss_memory # "secret"
    /\ (scan.op # "none" /\ scan.pc = "done") => scan.ss_memory # "secret"

-----------------------------------------------------------------------------
(* The compact binary formats: a byte vector is the sequence of its bytes.   *)
(* The key Bytes(len, content) is the vector of len bytes that all equal     *)
(* content; a channel id is 32 bytes that all equal its number               *)

fill(n, v) == [i \in 1..n |-> v]

\* a content that stands for a vector whose bytes are not all equal
MixedContent == 256

content_of(s) ==
    IF s = <<>> THEN 0
    ELSE IF \A i \in 1..Len(s) : s[i] = s[1] THEN s[1] ELSE MixedContent

\* bytes[from..to].to_vec(), with Rust's zero-based, end-exclusive range
to_vec(bytes, from, to) ==
    LET s == SubSeq(bytes, from + 1, to) IN Bytes(Len(s), content_of(s))

\* extend_from_slice(key)
key_bytes(b) == fill(b.len, b.content)

\* u64::to_le_bytes and u64::from_le_bytes
RECURSIVE le_bytes(_, _)
le_bytes(x, n) == IF n = 0 THEN <<>> ELSE <<x % 256>> \o le_bytes(x \div 256, n - 1)

to_le_bytes(x) == le_bytes(x, 8)

RECURSIVE from_le_bytes(_)
from_le_bytes(s) ==
    IF s = <<>> THEN 0 ELSE Head(s) + 256 * from_le_bytes(Tail(s))

\* Announcement::to_bytes
Announcement_to_bytes(a) ==
    LET has_channel == is_some(a.channel_id) IN
    key_bytes(a.ephemeral_key)
        \o <<a.view_tag>>
        \o to_le_bytes(a.timestamp)
        \o <<IF has_channel THEN 1 ELSE 0>>
        \o (IF has_channel THEN fill(32, unwrap(a.channel_id)) ELSE <<>>)

\* Announcement::from_bytes
Announcement_from_bytes(bytes, clock) ==
    LET min_size == KYBER_CIPHERTEXT_SIZE + VIEW_TAG_SIZE + 8 + 1 IN
    IF Len(bytes) < min_size THEN Bad("InvalidAnnouncement: too short")
    ELSE LET ephemeral_key == to_vec(bytes, 0, KYBER_CIPHERTEXT_SIZE)
             view_tag == bytes[KYBER_CIPHERTEXT_SIZE + 1]
             timestamp_start == KYBER_CIPHERTEXT_SIZE + VIEW_TAG_SIZE
             timestamp == from_le_bytes(SubSeq(bytes, timestamp_start + 1, timestamp_start + 8))
             has_channel == bytes[timestamp_start + 8 + 1] = 1
         IN  IF has_channel /\ Len(bytes) < min_size + 32
             THEN Bad("InvalidAnnouncement: missing channel_id bytes")
             ELSE LET channel_id ==
                          IF has_channel
                          THEN Some(to_vec(bytes, min_size, min_size + 32).content)
                          ELSE None
                      announcement ==
                          [id |-> 0, ephemeral_key |-> ephemeral_key, view_tag |-> view_tag,
                           timestamp |-> timestamp, channel_id |-> channel_id,
                           block_number |-> None, tx_hash |-> None]
                  IN  IF validate(announcement, clock) # "Ok"
                      THEN Bad("InvalidAnnouncement")
                      ELSE Good(announcement)

\* KyberPublicKey::from_bytes
KyberPublicKey_from_bytes(bytes) ==
    IF bytes.len # KYBER_PUBLIC_KEY_SIZE THEN Bad("InvalidKeySize") ELSE Good(bytes)

\* MetaAddress::to_bytes
MetaAddress_to_bytes(m) ==
    <<m.version>> \o key_bytes(m.spending_pk) \o key_bytes(m.viewing_pk)

\* MetaAddress::from_bytes
MetaAddress_from_bytes(bytes) ==
    IF Len(bytes) < 1 + 1184 + 1184 THEN Bad("InvalidMetaAddress: too short")
    ELSE LET version == bytes[1]
             spending_pk == KyberPublicKey_from_bytes(to_vec(bytes, 1, 1185))
             viewing_pk == KyberPublicKey_from_bytes(to_vec(bytes, 1185, 2369))
         IN  IF spending_pk.result # "Ok" THEN spending_pk
             ELSE IF viewing_pk.result # "Ok" THEN viewing_pk
             ELSE LET meta == MetaAddress(version, spending_pk.value, viewing_pk.value) IN
                  IF MetaAddress_validate(meta) # "Ok" THEN Bad("InvalidMetaAddress")
                  ELSE Good(meta)

\* the announcements encoded: all valid, with and without a channel, a
\* tx_hash, a block number and a registry id
CodecAnns ==
    { [Announcement(id, ValidKey, tg, StartTime, ch, tx) EXCEPT !.block_number = bn] :
        id \in {0, 5}, tg \in Tags, ch \in {None, Some(ChannelId)},
        tx \in {None, Some(<<"x", "a">>)}, bn \in {None, Some(9)} }

\* the meta-addresses encoded: valid ones, version 0, an all-zero key
CodecMetas ==
    { MetaAddress(PROTOCOL_VERSION, public_key(s), public_key(v)) : s \in KeyIds, v \in KeyIds }
    \cup { MetaAddress(0, public_key(1), public_key(1)),
           MetaAddress(PROTOCOL_VERSION, public_key(1), public_key(0)) }

\* the bytes that follow an encoding
TrailingBytes == UNION { [1..n -> {0, 1}] : n \in 0..MaxTrailing }

drop_last(bytes, n) == SubSeq(bytes, 1, Len(bytes) - n)

CodecCall(op, input, bytes, extra, result) ==
    [op |-> op, input |-> input, bytes |-> bytes, extra |-> extra, result |-> result]

\* a behaviour is one call: nothing is kept from one call to the next
CodecRest == <<mem, th, now, publog, errlog, nOps, fileVars, pay, scan, kd, sc, sq, ca, cf>>

\* Announcement::from_bytes(a.to_bytes())
ann_round_trip(a) ==
    /\ cd = NoCodec
    /\ cd' = CodecCall("round_trip", a, Announcement_to_bytes(a), 0,
                       Announcement_from_bytes(Announcement_to_bytes(a), now))
    /\ UNCHANGED CodecRest

\* Announcement::from_bytes on an encoding followed by other bytes
ann_from_longer(a, extra) ==
    /\ cd = NoCodec
    /\ extra # <<>>
    /\ LET bytes == Announcement_to_bytes(a) \o extra IN
        cd' = CodecCall("Announcement::from_bytes", a, bytes, Len(extra),
                        Announcement_from_bytes(bytes, now))
    /\ UNCHANGED CodecRest

\* Announcement::from_bytes on an encoding without its last bytes
ann_from_shorter(a, n) ==
    /\ cd = NoCodec
    /\ LET bytes == drop_last(Announcement_to_bytes(a), n) IN
        cd' = CodecCall("Announcement::from_bytes", a, bytes, 0 - n,
                        Announcement_from_bytes(bytes, now))
    /\ UNCHANGED CodecRest

\* MetaAddress::from_bytes on an encoding, alone or followed by other bytes
meta_from_bytes(m, extra) ==
    /\ cd = NoCodec
    /\ LET bytes == MetaAddress_to_bytes(m) \o extra IN
        cd' = CodecCall("MetaAddress::from_bytes", m, bytes, Len(extra),
                        MetaAddress_from_bytes(bytes))
    /\ UNCHANGED CodecRest

\* MetaAddress::from_bytes on an encoding without its last bytes
meta_from_shorter(m, n) ==
    /\ cd = NoCodec
    /\ LET bytes == drop_last(MetaAddress_to_bytes(m), n) IN
        cd' = CodecCall("MetaAddress::from_bytes", m, bytes, 0 - n,
                        MetaAddress_from_bytes(bytes))
    /\ UNCHANGED CodecRest

CodecInit ==
    /\ FileUnused
    /\ pay = NoPayment /\ scan = NoScan /\ ScannerUnused
    /\ sq = NoSeq /\ ca = NoCache /\ cf = NoConc
    /\ mem = MemoryRegistry_new
    /\ th = [t \in Threads |-> Idle]
    /\ now = StartTime
    /\ publog = <<>>
    /\ errlog = {}
    /\ nOps = 0
    /\ cd = NoCodec

CodecNext ==
    \/ \E a \in CodecAnns : ann_round_trip(a)
    \/ \E a \in CodecAnns, extra \in TrailingBytes : ann_from_longer(a, extra)
    \/ \E a \in CodecAnns, n \in 1..MaxTrailing : ann_from_shorter(a, n)
    \/ \E m \in CodecMetas, extra \in TrailingBytes : meta_from_bytes(m, extra)
    \/ \E m \in CodecMetas, n \in 1..MaxTrailing : meta_from_shorter(m, n)

SpecCodec == CodecInit /\ [][CodecNext]_vars

-----------------------------------------------------------------------------
(* Properties of the binary formats *)

\* C25: for every valid announcement a, from_bytes(a.to_bytes()) succeeds and
\* returns an announcement equal to a in ephemeral_key, view_tag, timestamp,
\* channel_id, block_number and tx_hash.
C25_BytesRoundTrip ==
    cd.op = "round_trip" =>
        /\ cd.result.result = "Ok"
        /\ cd.result.value.ephemeral_key = cd.input.ephemeral_key
        /\ cd.result.value.view_tag = cd.input.view_tag
        /\ cd.result.value.timestamp = cd.input.timestamp
        /\ cd.result.value.channel_id = cd.input.channel_id
        /\ cd.result.value.block_number = cd.input.block_number
        /\ cd.result.value.tx_hash = cd.input.tx_hash

\* C26: Announcement::from_bytes and MetaAddress::from_bytes return an error
\* for every input that has bytes after the end of the canonical encoding.
C26_TrailingBytesRejected ==
    (cd.op \in {"Announcement::from_bytes", "MetaAddress::from_bytes"} /\ cd.extra > 0)
        => cd.result.result # "Ok"

-----------------------------------------------------------------------------
(* MetaAddressCache (specter-cache/src/cache.rs; specter-ens/src/cache.rs    *)
(* holds the same code). Every method takes the RwLock for its whole body,   *)
(* so a call is one step. An Instant is a number of seconds                  *)

CacheConfig(max_entries, default_ttl_seconds, auto_cleanup) ==
    [max_entries |-> max_entries, default_ttl_seconds |-> default_ttl_seconds,
     auto_cleanup |-> auto_cleanup]

CacheEntry(meta_address, inserted_at, ttl) ==
    [meta_address |-> meta_address, inserted_at |-> inserted_at, ttl |-> ttl]

\* CacheEntry::is_expired: inserted_at.elapsed() > ttl
is_expired(e, instant) == instant - e.inserted_at > e.ttl

\* entries.retain(|_, e| !e.is_expired())
retain_fresh(entries, instant) ==
    [k \in { x \in DOMAIN entries : ~is_expired(entries[x], instant) } |-> entries[k]]

\* entries.remove(key)
remove_key(entries, k) == [x \in DOMAIN entries \ {k} |-> entries[x]]

\* entries.iter().min_by_key(|(_, e)| e.inserted_at): among entries inserted
\* at the same Instant the map's iteration order decides
oldest_keys(entries) ==
    { k \in DOMAIN entries :
        \A x \in DOMAIN entries : entries[k].inserted_at <= entries[x].inserted_at }

\* set_with_ttl, up to the insert: the maps the eviction can leave
after_eviction(config, entries, instant) ==
    LET cleaned == IF config.auto_cleanup /\ Cardinality(DOMAIN entries) >= config.max_entries
                   THEN retain_fresh(entries, instant) ELSE entries
    IN  IF Cardinality(DOMAIN cleaned) >= config.max_entries /\ DOMAIN cleaned # {}
        THEN { remove_key(cleaned, k) : k \in oldest_keys(cleaned) }
        ELSE { cleaned }

\* the names given to the cache: two spellings of one name, and two others
CacheKeys == { <<"a">>, <<" ", "A">>, <<"b">>, <<"c">> }

CacheTtls == {0, 2}

CacheRest == <<mem, th, now, publog, errlog, nOps, fileVars, pay, scan, kd, sc, sq, cd, cf>>

CacheCall(op, key, found) ==
    [ca EXCEPT !.n = @ + 1,
               !.last = [op |-> op, key |-> key, found |-> found, pre |-> ca.entries,
                         at |-> ca.instant, removed |-> {}]]

\* MetaAddressCache::set_with_ttl
cache_set_with_ttl(key, meta_address, ttl, op) ==
    /\ ca.n < MaxCacheOps
    /\ LET normalized == to_lowercase(trim(key)) IN
        \E kept \in after_eviction(ca.config, ca.entries, ca.instant) :
            ca' = [CacheCall(op, normalized, FALSE) EXCEPT
                      !.entries = insert(kept, normalized,
                                         CacheEntry(meta_address, ca.instant, ttl)),
                      !.last.removed = DOMAIN ca.entries \ DOMAIN kept]
    /\ UNCHANGED CacheRest

\* MetaAddressCache::set
cache_set(key, meta_address) ==
    cache_set_with_ttl(key, meta_address, ca.config.default_ttl_seconds, "set")

\* MetaAddressCache::get
cache_get(key) ==
    /\ ca.n < MaxCacheOps
    /\ LET normalized == to_lowercase(trim(key)) IN
        ca' = CacheCall("get", normalized,
                        /\ normalized \in DOMAIN ca.entries
                        /\ ~is_expired(ca.entries[normalized], ca.instant))
    /\ UNCHANGED CacheRest

\* MetaAddressCache::remove
cache_remove(key) ==
    /\ ca.n < MaxCacheOps
    /\ LET normalized == to_lowercase(trim(key)) IN
        ca' = [CacheCall("remove", normalized, FALSE) EXCEPT
                  !.entries = remove_key(ca.entries, normalized)]
    /\ UNCHANGED CacheRest

\* MetaAddressCache::cleanup_expired
cache_cleanup_expired ==
    /\ ca.n < MaxCacheOps
    /\ ca' = [CacheCall("cleanup_expired", <<>>, FALSE) EXCEPT
                  !.entries = retain_fresh(ca.entries, ca.instant)]
    /\ UNCHANGED CacheRest

\* MetaAddressCache::clear
cache_clear ==
    /\ ca.n < MaxCacheOps
    /\ ca' = [CacheCall("clear", <<>>, FALSE) EXCEPT !.entries = EmptyMap]
    /\ UNCHANGED CacheRest

\* a second passes
cache_tick ==
    /\ ca.instant < MaxCacheTicks
    /\ ca' = [ca EXCEPT !.instant = @ + 1]
    /\ UNCHANGED CacheRest

\* MetaAddressCache::with_config
CacheInit ==
    /\ FileUnused
    /\ pay = NoPayment /\ scan = NoScan /\ ScannerUnused
    /\ sq = NoSeq /\ cd = NoCodec /\ cf = NoConc
    /\ mem = MemoryRegistry_new
    /\ th = [t \in Threads |-> Idle]
    /\ now = StartTime
    /\ publog = <<>>
    /\ errlog = {}
    /\ nOps = 0
    /\ \E max_entries \in 0..MaxCapacity, auto_cleanup \in BOOLEAN :
        ca = [config |-> CacheConfig(max_entries, 1, auto_cleanup),
              entries |-> EmptyMap, instant |-> 0, n |-> 0,
              last |-> [op |-> "with_config", key |-> <<>>, found |-> FALSE,
                        pre |-> EmptyMap, at |-> 0, removed |-> {}]]

CacheNext ==
    \/ \E key \in CacheKeys : cache_set(key, 1)
    \/ \E key \in CacheKeys, ttl \in CacheTtls : cache_set_with_ttl(key, 2, ttl, "set_with_ttl")
    \/ \E key \in CacheKeys : cache_get(key)
    \/ \E key \in CacheKeys : cache_remove(key)
    \/ cache_cleanup_expired
    \/ cache_clear
    \/ cache_tick

SpecCache == CacheInit /\ [][CacheNext]_vars

-----------------------------------------------------------------------------
(* Properties of the cache *)

\* the entries the cache held when the last call was made that were expired then
ExpiredBefore == { k \in DOMAIN ca.last.pre : is_expired(ca.last.pre[k], ca.last.at) }

\* C27: a cache configured with max_entries = M never holds more than M
\* entries, and a set or set_with_ttl on a full cache makes room by removing
\* the expired entries or, if there is none, one entry with the earliest
\* insertion time.
C27_CacheWithinCapacity ==
    /\ Cardinality(DOMAIN ca.entries) <= ca.config.max_entries
    /\ (/\ ca.last.op \in {"set", "set_with_ttl"}
        /\ Cardinality(DOMAIN ca.last.pre) >= ca.config.max_entries
        /\ ca.last.pre # EmptyMap) =>
            IF ExpiredBefore # {}
            THEN ca.last.removed = ExpiredBefore
            ELSE /\ Cardinality(ca.last.removed) = 1
                 /\ ca.last.removed \subseteq oldest_keys(ca.last.pre)

-----------------------------------------------------------------------------
(* FileRegistry with concurrent callers (file.rs). publish, save and flush   *)
(* take &self and hold no lock across their steps, so the steps of two calls *)
(* interleave. The memory registry is the number of announcements it holds,  *)
(* with ids 1..count. A file is an inode: a name (the registry path, the     *)
(* temporary path) points to an inode, an open handle keeps its inode, and   *)
(* File::create on an existing name truncates the inode it names. The bytes  *)
(* save builds are a header unit that carries the count, one unit for each   *)
(* announcement, and a unit that closes the JSON array; write_all is one     *)
(* write at offset 0 of the handle                                          *)

ConcCallers == {1, 2}

HeaderUnit(k) == 100 + k
EndUnit == 0

\* save, lines 134-148: the contents built from a snapshot of k announcements
contents_of(k) == <<HeaderUnit(k)>> \o [i \in 1..k |-> i] \o <<EndUnit>>

\* write_all(&contents) at offset 0 of a file that holds old
write_over(old, contents) ==
    contents \o SubSeq(old, Len(contents) + 1, Len(old))

ConcIdleCaller == [op |-> "idle", pc |-> "idle", snap |-> 0, fd |-> 0, result |-> "none"]

ConcRest == <<mem, th, now, publog, errlog, nOps, fileVars, pay, scan, kd, sc, sq, cd, ca>>

ConcCanStart(t) == cf.callers[t].pc = "idle" /\ cf.n < MaxConcOps

ConcStart(t, op, pc) ==
    [cf EXCEPT !.n = @ + 1,
               !.callers[t] = [ConcIdleCaller EXCEPT !.op = op, !.pc = pc]]

ConcReturn(c, t, result) ==
    [c EXCEPT !.callers[t].pc = "idle", !.callers[t].result = result]

\* a caller calls publish, save or flush
conc_call(t) ==
    /\ ConcCanStart(t)
    /\ \E call \in { <<"publish", "memory">>, <<"save", "snapshot">>, <<"flush", "check">> } :
        cf' = ConcStart(t, call[1], call[2])
    /\ UNCHANGED ConcRest

\* publish, line 226: self.memory.publish(announcement)
conc_publish_memory(t) ==
    /\ cf.callers[t].pc = "memory"
    /\ cf' = [cf EXCEPT !.count = @ + 1, !.callers[t].pc = "dirty"]
    /\ UNCHANGED ConcRest

\* publish, line 227: self.dirty.store(true)
conc_publish_dirty(t) ==
    /\ cf.callers[t].pc = "dirty"
    /\ cf' = [cf EXCEPT !.dirty = TRUE, !.callers[t].pc = "auto"]
    /\ UNCHANGED ConcRest

\* maybe_auto_save, lines 205-206: fetch_add and the comparison
conc_maybe_auto_save(t) ==
    /\ cf.callers[t].pc = "auto"
    /\ LET bumped == [cf EXCEPT !.writes_since_save = @ + 1] IN
        cf' = IF cf.writes_since_save >= cf.auto_save_threshold
              THEN [bumped EXCEPT !.callers[t].pc = "snapshot"]
              ELSE ConcReturn(bumped, t, "Ok")
    /\ UNCHANGED ConcRest

\* flush, line 172: is_dirty()
conc_flush_check(t) ==
    /\ cf.callers[t].pc = "check"
    /\ cf' = IF cf.dirty THEN [cf EXCEPT !.callers[t].pc = "snapshot"]
              ELSE ConcReturn(cf, t, "Ok")
    /\ UNCHANGED ConcRest

\* save, line 134: self.memory.all_announcements()
conc_save_snapshot(t) ==
    /\ cf.callers[t].pc = "snapshot"
    /\ cf' = [cf EXCEPT !.callers[t].snap = cf.count, !.callers[t].pc = "create"]
    /\ UNCHANGED ConcRest

\* save, line 152: File::create(&temp_path) makes the file or truncates it
conc_save_create(t) ==
    /\ cf.callers[t].pc = "create"
    /\ cf' = IF cf.names.tmp # 0
              THEN [cf EXCEPT !.inodes[cf.names.tmp] = <<>>,
                              !.callers[t].fd = cf.names.tmp,
                              !.callers[t].pc = "write"]
              ELSE LET inode == Len(cf.inodes) + 1 IN
                   [cf EXCEPT !.inodes = Append(@, <<>>),
                              !.names.tmp = inode,
                              !.callers[t].fd = inode,
                              !.callers[t].pc = "write"]
    /\ UNCHANGED ConcRest

\* save, lines 153-154: write_all(&contents) and sync_all()
conc_save_write(t) ==
    /\ cf.callers[t].pc = "write"
    /\ cf' = [cf EXCEPT !.inodes[cf.callers[t].fd] =
                            write_over(@, contents_of(cf.callers[t].snap)),
                        !.callers[t].pc = "rename"]
    /\ UNCHANGED ConcRest

\* save, line 156: rename(&temp_path, &self.path); without a file at
\* temp_path it fails and save returns the I/O error
conc_save_rename(t) ==
    /\ cf.callers[t].pc = "rename"
    /\ cf' = IF cf.names.tmp = 0
              THEN ConcReturn(cf, t, "IoError")
              ELSE [cf EXCEPT !.names = [path |-> cf.names.tmp, tmp |-> 0],
                              !.callers[t].pc = "clear_dirty"]
    /\ UNCHANGED ConcRest

\* save, line 158: self.dirty.store(false)
conc_save_clear_dirty(t) ==
    /\ cf.callers[t].pc = "clear_dirty"
    /\ cf' = [cf EXCEPT !.dirty = FALSE, !.callers[t].pc = "reset_writes"]
    /\ UNCHANGED ConcRest

\* save, lines 159-162: self.writes_since_save.store(0), Ok(())
conc_save_reset_writes(t) ==
    /\ cf.callers[t].pc = "reset_writes"
    /\ cf' = ConcReturn([cf EXCEPT !.writes_since_save = 0], t, "Ok")
    /\ UNCHANGED ConcRest

\* FileRegistry::with_auto_save on a path that holds no file
ConcInit ==
    /\ FileUnused
    /\ pay = NoPayment /\ scan = NoScan /\ ScannerUnused
    /\ sq = NoSeq /\ cd = NoCodec /\ ca = NoCache
    /\ mem = MemoryRegistry_new
    /\ th = [t \in Threads |-> Idle]
    /\ now = StartTime
    /\ publog = <<>>
    /\ errlog = {}
    /\ nOps = 0
    /\ \E threshold \in {0, 2} :
        cf = [alive |-> TRUE, auto_save_threshold |-> threshold, count |-> 0,
              dirty |-> FALSE, writes_since_save |-> 0,
              names |-> [path |-> 0, tmp |-> 0], inodes |-> <<>>,
              callers |-> [t \in ConcCallers |-> ConcIdleCaller], n |-> 0]

ConcNext ==
    \/ \E t \in ConcCallers : conc_call(t)
    \/ \E t \in ConcCallers : conc_publish_memory(t)
    \/ \E t \in ConcCallers : conc_publish_dirty(t)
    \/ \E t \in ConcCallers : conc_maybe_auto_save(t)
    \/ \E t \in ConcCallers : conc_flush_check(t)
    \/ \E t \in ConcCallers : conc_save_snapshot(t)
    \/ \E t \in ConcCallers : conc_save_create(t)
    \/ \E t \in ConcCallers : conc_save_write(t)
    \/ \E t \in ConcCallers : conc_save_rename(t)
    \/ \E t \in ConcCallers : conc_save_clear_dirty(t)
    \/ \E t \in ConcCallers : conc_save_reset_writes(t)

SpecFileConc == ConcInit /\ [][ConcNext]_vars

-----------------------------------------------------------------------------
(* Properties of the FileRegistry with concurrent callers *)

ConcAllReturned == \A t \in ConcCallers : cf.callers[t].pc = "idle"

\* the bytes are those save builds from one snapshot of the memory registry
WellFormed(bytes) == \E k \in 0..MaxConcOps : bytes = contents_of(k)

\* C28: once every publish, save and flush call has returned, a registry
\* that is not dirty has every announcement of its memory in the file at
\* the registry path.
C28_CleanMeansSaved ==
    (ConcAllReturned /\ ~cf.dirty /\ cf.count > 0) =>
        /\ cf.names.path # 0
        /\ cf.inodes[cf.names.path] = contents_of(cf.count)

\* C29: once every call has returned, the file at the registry path, if
\* there is one, is the complete contents save built from one snapshot:
\* header, count and payload of the same snapshot, and nothing else.
C29_FileIsOneSnapshot ==
    (ConcAllReturned /\ cf.names.path # 0) => WellFormed(cf.inodes[cf.names.path])

====
